---------------------------- MODULE Spec2Model ----------------------------
(***************************************************************************)
(* Verification model of the PMS channel manager:                          *)
(*   - the sliding-window rate limiter   (channel-manager/rate-limiter.py) *)
(*   - the circuit breaker            (channel-manager/circuit-breaker.py) *)
(*   - the reservation flow (direct-booking-engine/backend-api-routes.py)  *)
(*   - webhook ingress and booking import                                  *)
(*       (channel-manager/webhook-handlers.py, sync-engine.py)             *)
(* Every Redis command, database commit and processor call is one step of  *)
(* the worker that issues it; workers interleave between steps.            *)
(***************************************************************************)
EXTENDS Integers, Sequences, FiniteSets, Bags, TLC

(***************************************************************************)
(* Bounds of the model.                                                    *)
(***************************************************************************)
NumCallers == 2        \* concurrent callers of acquire on one key
MaxWeight == 1         \* largest request weight tried
MaxClock == 2          \* last clock value of the limiter's clock
MaxAdmitted == 2       \* admitted weight after which no further call starts
NumWorkers == 2        \* concurrent workers sharing one circuit breaker
MaxCbClock == 2        \* last clock value of the breaker's clock
MaxSuccesses == 3      \* cap of the half-open success counter
MaxDate == 2           \* nights 1..MaxDate; a stay is check_in..check_out-1
MaxCalls == 3          \* create, confirm, cancel, expire, payment-webhook and import calls
NumRequests == 2       \* concurrent create_booking requests
NumOps == 3            \* concurrent confirm / cancel / expire / payment-webhook calls
NumDeliveries == 2     \* channel webhook deliveries
NumImports == 2        \* import_channel_booking tasks
NumMessages == 2       \* messages appended to the pms:events stream
MaxRateLimits == 2     \* 429 responses recorded on one limiter key
MaxRetryAfter == 2     \* largest Retry-After hint, in clock units
MaxErrors == 4         \* cap of a connection's error_count
MaxRefreshRuns == 3    \* runs of refresh_expiring_tokens
NumGuestCalls == 3     \* concurrent create_or_get_guest calls

\* CircuitBreakerConfig, scaled down (circuit-breaker.py 86-94)
failure_threshold == 2
success_threshold == 2
timeout == 1
half_open_max_calls == 2
window_size == 2

\* XREADGROUP count, scaled down (sync-engine.py 1235)
read_count == 2

\* max_retries of the outbound write tasks, scaled down (sync-engine.py 485, 650)
max_retries == 2

\* max_retries of poll_single_channel, scaled down (sync-engine.py 1113)
poll_max_retries == 1

(***************************************************************************)
(* State.  rl_*: rate limiter key and callers.  cb_*: circuit breaker keys *)
(* and workers.  bookings, calendar, payment_transactions: the database    *)
(* tables (payment_transactions as the bag of its rows).                   *)
(* published: the bag of publish_booking_event calls.  res_*,              *)
(* intents, stripe_seen: booking locks, requests in flight and the payment *)
(* processor.  wh_*, imp_*, imported, fanout: webhook ingress and import.  *)
(***************************************************************************)
VARIABLES rl_config, rl_now, rl_key, rl_ttl, rl_call, rl_admitted
VARIABLES rl_adaptive, rl_rate_limited
VARIABLES cb_now, cb_state, cb_failures, cb_successes, cb_opened_at,
          cb_half_open_calls, cb_worker

adVars == <<rl_adaptive, rl_rate_limited>>
rlVars == <<rl_config, rl_now, rl_key, rl_ttl, rl_call, rl_admitted, adVars>>
cbVars == <<cb_now, cb_state, cb_failures, cb_successes, cb_opened_at,
            cb_half_open_calls, cb_worker>>
VARIABLES bookings, calendar, payment_transactions
VARIABLES published
VARIABLES fanout_ran, availability_tasks
VARIABLES stream, last_delivered, pel, batch, handler_queue
VARIABLES remote, reconcile_ran
VARIABLES connection, write_task, sync_logs, refresh, refresh_failures
VARIABLES guests, guest_call
VARIABLES res_lock, res_req, res_op, intents, stripe_seen
VARIABLES wh_seen, wh_call, imported, imp_task, fanout

dbVars == <<bookings, calendar, payment_transactions>>
evVars == <<published>>
resVars == <<res_lock, res_req, res_op, intents, stripe_seen>>
ingVars == <<wh_seen, wh_call, imported, imp_task, fanout>>
syncVars == <<fanout_ran, availability_tasks>>
strVars == <<stream, last_delivered, pel, batch, handler_queue>>
recVars == <<remote, reconcile_ran>>
tkVars == <<connection, write_task, sync_logs, refresh, refresh_failures>>
gVars == <<guests, guest_call>>
vars == <<rlVars, cbVars, dbVars, resVars, ingVars, evVars, syncVars, strVars,
          recVars, tkVars, gVars>>

\* what the steps of one component leave alone
rlOthers == <<cbVars, dbVars, resVars, ingVars, evVars, syncVars, strVars, recVars, tkVars, gVars>>
cbOthers == <<rlVars, dbVars, resVars, ingVars, evVars, syncVars, strVars, recVars, tkVars, gVars>>
resOthers == <<rlVars, cbVars, ingVars, evVars, syncVars, strVars, recVars, tkVars, gVars>>
ingOthers == <<rlVars, cbVars, resVars, evVars, syncVars, strVars, recVars, tkVars, gVars>>
\* what a step that publishes a booking event leaves alone
pubOthers == <<rlVars, cbVars, ingVars, syncVars, strVars, recVars, tkVars, gVars>>
syncOthers == <<rlVars, cbVars, dbVars, resVars, evVars, strVars, tkVars, gVars>>
tkOthers == <<rlVars, cbVars, dbVars, resVars, ingVars, evVars, syncVars, strVars,
             recVars, gVars>>
gOthers == <<rlVars, cbVars, dbVars, resVars, ingVars, evVars, syncVars, strVars,
            recVars, tkVars>>
strOthers == <<rlVars, cbVars, dbVars, resVars, ingVars, evVars, syncVars, recVars, tkVars, gVars>>

Max(a, b) == IF a >= b THEN a ELSE b
Min(a, b) == IF a <= b THEN a ELSE b

(***************************************************************************)
(* RATE LIMITER  (rate-limiter.py, ChannelRateLimiter)                     *)
(* One key (channel_type, connection_id).  The sorted set is a set of      *)
(* members <<now, weight>>: the member string is f"{now}:{weight}" and its *)
(* score is now, so a second ZADD of an equal member adds nothing.         *)
(***************************************************************************)
RlCallers == 1..NumCallers
NoTtl == -1

\* RateLimitConfig rows in the shape of RATE_LIMITS, scaled down; burst_limit
\* 0 stands for None ("config.burst_limit or config.max_requests").
RateLimitConfigs ==
    { [max_requests |-> 1, window_seconds |-> 1, burst_limit |-> 0],
      [max_requests |-> 1, window_seconds |-> 1, burst_limit |-> 2] }

effective_limit(config) ==
    IF config.burst_limit # 0 THEN config.burst_limit ELSE config.max_requests

\* The adaptive:<channel>:<connection>:* keys of AdaptiveRateLimiter:
\* rate_limit_count, multiplier (in 1/10000; 0: key absent, read as 1.0) and
\* blocked_until with the instant its ex= expiry removes it (0: key absent).
\* The 300 s and 3600 s expiries of the first two lie beyond the model's clock.
NoAdaptiveKeys == [rate_limit_count |-> 0, multiplier |-> 0,
                   blocked_until |-> 0, blocked_ttl |-> 0]

RlIdle == [pc |-> "idle", now |-> 0, weight |-> 0, ret |-> "none"]

RlStart ==
    /\ rl_now = 0
    /\ rl_key = {}
    /\ rl_ttl = NoTtl
    /\ rl_call = [w \in RlCallers |-> RlIdle]
    /\ rl_admitted = [t \in 0..MaxClock |-> 0]
    /\ rl_adaptive = NoAdaptiveKeys
    /\ rl_rate_limited = {}

RECURSIVE SumTo(_, _)
SumTo(f, n) == IF n < 0 THEN 0 ELSE f[n] + SumTo(f, n - 1)

RlInit == rl_config \in RateLimitConfigs /\ RlStart

RlParked == rl_config = [max_requests |-> 1, window_seconds |-> 1, burst_limit |-> 0] /\ RlStart

\* now = time.time(); window_start = now - window_seconds
acquire_begin(w) ==
    /\ rl_call[w].pc = "idle"
    /\ SumTo(rl_admitted, MaxClock) < MaxAdmitted
    /\ \E weight \in 1..MaxWeight :
         rl_call' = [rl_call EXCEPT ![w] =
                       [pc |-> "pipe", now |-> rl_now, weight |-> weight, ret |-> "none"]]
    /\ UNCHANGED rlOthers
    /\ UNCHANGED adVars
    /\ UNCHANGED <<rl_config, rl_now, rl_key, rl_ttl, rl_admitted>>

\* ZREMRANGEBYSCORE key 0 window_start: scores <= window_start are removed
zremrangebyscore(key, window_start) == { m \in key : m[1] > window_start }

\* a limiter that records the rejected call as well
denied_key_appends(trimmed, now, weight) == trimmed \cup { <<now, weight>> }

\* what a call that is over the limit leaves in the sorted set
denied_key(trimmed, now, weight) == trimmed

\* pipe.execute(): ZREMRANGEBYSCORE + ZCARD in one transaction, then the
\* local comparison current_count + weight > effective_limit
acquire_pipe(w) ==
    /\ rl_call[w].pc = "pipe"
    /\ LET c == rl_call[w]
           trimmed == zremrangebyscore(rl_key, c.now - rl_config.window_seconds)
           current_count == Cardinality(trimmed)
       IN  IF current_count + c.weight > effective_limit(rl_config)
           THEN /\ rl_key' = denied_key(trimmed, c.now, c.weight)
                /\ rl_call' = [rl_call EXCEPT ![w] = [RlIdle EXCEPT !.ret = "denied"]]
           ELSE /\ rl_key' = trimmed
                /\ rl_call' = [rl_call EXCEPT ![w] = [c EXCEPT !.pc = "zadd"]]
    /\ UNCHANGED rlOthers
    /\ UNCHANGED adVars
    /\ UNCHANGED <<rl_config, rl_now, rl_ttl, rl_admitted>>

\* redis.zadd(key, {f"{now}:{weight}": now}): one member whatever the weight
acquire_zadd(w) ==
    /\ rl_call[w].pc = "zadd"
    /\ rl_key' = rl_key \cup { <<rl_call[w].now, rl_call[w].weight>> }
    /\ rl_call' = [rl_call EXCEPT ![w].pc = "expire"]
    /\ UNCHANGED rlOthers
    /\ UNCHANGED adVars
    /\ UNCHANGED <<rl_config, rl_now, rl_ttl, rl_admitted>>

\* redis.expire(key, window_seconds * 2), then return True.  EXPIRE on a key
\* that does not exist sets nothing.
acquire_expire(w) ==
    /\ rl_call[w].pc = "expire"
    /\ rl_ttl' = IF rl_key # {} THEN rl_now + 2 * rl_config.window_seconds ELSE NoTtl
    /\ rl_call' = [rl_call EXCEPT ![w] = [RlIdle EXCEPT !.ret = "allowed"]]
    /\ rl_admitted' = [rl_admitted EXCEPT ![rl_call[w].now] = @ + rl_call[w].weight]
    /\ UNCHANGED rlOthers
    /\ UNCHANGED adVars
    /\ UNCHANGED <<rl_config, rl_now, rl_key>>

\* max(0.5, multiplier * 0.75) on the multiplier in 1/10000
decrease_limit(multiplier) ==
    Max(5000, ((IF multiplier = 0 THEN 10000 ELSE multiplier) * 3) \div 4)

\* AdaptiveRateLimiter.record_rate_limit: INCR and EXPIRE of the counter,
\* _decrease_limit, and with a truthy retry_after
\* SET blocked_until (now + retry_after) EX int(retry_after) + 1
record_rate_limit(retry_after) ==
    /\ rl_adaptive.rate_limit_count < MaxRateLimits
    /\ rl_adaptive' =
         [rate_limit_count |-> rl_adaptive.rate_limit_count + 1,
          multiplier |-> decrease_limit(rl_adaptive.multiplier),
          blocked_until |-> IF retry_after # 0 THEN rl_now + retry_after
                            ELSE rl_adaptive.blocked_until,
          blocked_ttl |-> IF retry_after # 0 THEN rl_now + retry_after + 1
                          ELSE rl_adaptive.blocked_ttl]
    /\ rl_rate_limited' = rl_rate_limited \cup {<<rl_now, retry_after>>}
    /\ UNCHANGED rlOthers
    /\ UNCHANGED <<rl_config, rl_now, rl_key, rl_ttl, rl_call, rl_admitted>>

\* the clock advances; a key whose TTL has run out is deleted by the store
rl_tick ==
    /\ rl_now < MaxClock
    /\ rl_now' = rl_now + 1
    /\ IF rl_ttl # NoTtl /\ rl_now + 1 >= rl_ttl
       THEN rl_key' = {} /\ rl_ttl' = NoTtl
       ELSE UNCHANGED <<rl_key, rl_ttl>>
    /\ rl_adaptive' =
         IF rl_adaptive.blocked_ttl # 0 /\ rl_now + 1 >= rl_adaptive.blocked_ttl
         THEN [rl_adaptive EXCEPT !.blocked_until = 0, !.blocked_ttl = 0]
         ELSE rl_adaptive
    /\ UNCHANGED rl_rate_limited
    /\ UNCHANGED rlOthers
    /\ UNCHANGED <<rl_config, rl_call, rl_admitted>>

(***************************************************************************)
(* CIRCUIT BREAKER  (circuit-breaker.py, CircuitBreaker)                   *)
(* One channel.  The five Redis keys are cb_state, cb_failures (sorted set *)
(* of failure times; the member is str(now)), cb_successes, cb_opened_at   *)
(* and cb_half_open_calls.  None marks a key that does not exist.          *)
(***************************************************************************)
CbWorkers == 1..NumWorkers
None == -1

CbIdle == [op |-> "none", pc |-> "idle", target |-> "none", ret |-> "none"]

CbInit ==
    /\ cb_now = 0
    /\ cb_state = "none"
    /\ cb_failures = {}
    /\ cb_successes = None
    /\ cb_opened_at = None
    /\ cb_half_open_calls = None
    /\ cb_worker = [w \in CbWorkers |-> CbIdle]

\* redis.get(key) or 0 / INCR of a missing key counts from 0
OrZero(v) == IF v = None THEN 0 ELSE v

cb_return(wk, ret) == [wk EXCEPT !.pc = "idle", !.target = "none", !.ret = ret]

\* what the caller of get_state does with the state it was given:
\* can_execute 320-339, record_success 371-381, record_failure 400-441
after_get_state(wk, state) ==
    CASE wk.op = "can_execute" ->
           IF state = "closed" THEN cb_return(wk, "true")
           ELSE IF state = "open" THEN cb_return(wk, "false")
           ELSE [wk EXCEPT !.pc = "ce_read"]
      [] wk.op = "record_success" ->
           IF state = "half_open" THEN [wk EXCEPT !.pc = "rs_incr"]
           ELSE cb_return(wk, "recorded")
      [] wk.op = "record_failure" ->
           IF state = "closed" THEN [wk EXCEPT !.pc = "rf_pipe"]
           ELSE IF state = "half_open" THEN [wk EXCEPT !.pc = "t_open_1", !.target = "open"]
           ELSE cb_return(wk, "recorded")

\* a worker calls can_execute, record_success or record_failure(error)
cb_begin(w) ==
    /\ cb_worker[w].pc = "idle"
    /\ \E op \in {"can_execute", "record_success", "record_failure"} :
         cb_worker' = [cb_worker EXCEPT ![w] =
                         [op |-> op, pc |-> "gs_read", target |-> "none", ret |-> "none"]]
    /\ UNCHANGED cbOthers
    /\ UNCHANGED <<cb_now, cb_state, cb_failures, cb_successes, cb_opened_at,
                   cb_half_open_calls>>

\* record_failure(error) with an excluded error returns at once
record_failure_excluded(w) ==
    /\ cb_worker[w].pc = "idle"
    /\ cb_worker[w].ret # "excluded"
    /\ cb_worker' = [cb_worker EXCEPT ![w] =
                       [op |-> "record_failure", pc |-> "idle", target |-> "none",
                        ret |-> "excluded"]]
    /\ UNCHANGED cbOthers
    /\ UNCHANGED <<cb_now, cb_state, cb_failures, cb_successes, cb_opened_at,
                   cb_half_open_calls>>

\* get_state: state_str = redis.get(state_key); None reads as CLOSED
get_state_read(w) ==
    /\ cb_worker[w].pc = "gs_read"
    /\ LET state == IF cb_state = "none" THEN "closed" ELSE cb_state
       IN  cb_worker' = [cb_worker EXCEPT ![w] =
                           IF state = "open" THEN [@ EXCEPT !.pc = "gs_opened"]
                           ELSE after_get_state(@, state)]
    /\ UNCHANGED cbOthers
    /\ UNCHANGED <<cb_now, cb_state, cb_failures, cb_successes, cb_opened_at,
                   cb_half_open_calls>>

\* get_state in OPEN: opened_at = redis.get(opened_at_key); when
\* time.time() - opened_at >= timeout, _transition_to(HALF_OPEN)
get_state_opened_at(w) ==
    /\ cb_worker[w].pc = "gs_opened"
    /\ cb_worker' = [cb_worker EXCEPT ![w] =
                       IF cb_opened_at # None /\ cb_now - cb_opened_at >= timeout
                       THEN [@ EXCEPT !.pc = "t_half_1", !.target = "half_open"]
                       ELSE after_get_state(@, "open")]
    /\ UNCHANGED cbOthers
    /\ UNCHANGED <<cb_now, cb_state, cb_failures, cb_successes, cb_opened_at,
                   cb_half_open_calls>>

\* _transition_to(HALF_OPEN): redis.delete(successes_key)
transition_half_open_delete(w) ==
    /\ cb_worker[w].pc = "t_half_1"
    /\ cb_successes' = None
    /\ cb_worker' = [cb_worker EXCEPT ![w].pc = "t_half_2"]
    /\ UNCHANGED cbOthers
    /\ UNCHANGED <<cb_now, cb_state, cb_failures, cb_opened_at, cb_half_open_calls>>

\* _transition_to(HALF_OPEN): redis.set(half_open_calls_key, 0)
transition_half_open_set(w) ==
    /\ cb_worker[w].pc = "t_half_2"
    /\ cb_half_open_calls' = 0
    /\ cb_worker' = [cb_worker EXCEPT ![w].pc = "set_state"]
    /\ UNCHANGED cbOthers
    /\ UNCHANGED <<cb_now, cb_state, cb_failures, cb_successes, cb_opened_at>>

\* _transition_to(CLOSED): redis.delete(failures, successes, opened_at, half_open_calls)
transition_closed_delete(w) ==
    /\ cb_worker[w].pc = "t_closed_1"
    /\ cb_failures' = {}
    /\ cb_successes' = None
    /\ cb_opened_at' = None
    /\ cb_half_open_calls' = None
    /\ cb_worker' = [cb_worker EXCEPT ![w].pc = "set_state"]
    /\ UNCHANGED cbOthers
    /\ UNCHANGED <<cb_now, cb_state>>

\* _transition_to(OPEN): redis.set(opened_at_key, time.time())
transition_open_set(w) ==
    /\ cb_worker[w].pc = "t_open_1"
    /\ cb_opened_at' = cb_now
    /\ cb_worker' = [cb_worker EXCEPT ![w].pc = "t_open_2"]
    /\ UNCHANGED cbOthers
    /\ UNCHANGED <<cb_now, cb_state, cb_failures, cb_successes, cb_half_open_calls>>

\* _transition_to(OPEN): redis.delete(successes_key, half_open_calls_key)
transition_open_delete(w) ==
    /\ cb_worker[w].pc = "t_open_2"
    /\ cb_successes' = None
    /\ cb_half_open_calls' = None
    /\ cb_worker' = [cb_worker EXCEPT ![w].pc = "set_state"]
    /\ UNCHANGED cbOthers
    /\ UNCHANGED <<cb_now, cb_state, cb_failures, cb_opened_at>>

\* _set_state(state): redis.set(state_key, state.value); the preceding GET of
\* the old state feeds the metrics only.  get_state then returns HALF_OPEN
\* to its caller; the other transitions end the operation.
_set_state(w) ==
    /\ cb_worker[w].pc = "set_state"
    /\ cb_state' = cb_worker[w].target
    /\ cb_worker' = [cb_worker EXCEPT ![w] =
                       IF @.target = "half_open" THEN after_get_state(@, "half_open")
                       ELSE cb_return(@, "recorded")]
    /\ UNCHANGED cbOthers
    /\ UNCHANGED <<cb_now, cb_failures, cb_successes, cb_opened_at, cb_half_open_calls>>

\* can_execute in HALF_OPEN: calls = int(redis.get(half_open_calls_key) or 0)
can_execute_read(w) ==
    /\ cb_worker[w].pc = "ce_read"
    /\ cb_worker' = [cb_worker EXCEPT ![w] =
                       IF OrZero(cb_half_open_calls) >= half_open_max_calls
                       THEN cb_return(@, "false")
                       ELSE [@ EXCEPT !.pc = "ce_incr"]]
    /\ UNCHANGED cbOthers
    /\ UNCHANGED <<cb_now, cb_state, cb_failures, cb_successes, cb_opened_at,
                   cb_half_open_calls>>

\* can_execute in HALF_OPEN: redis.incr(half_open_calls_key); return True
can_execute_incr(w) ==
    /\ cb_worker[w].pc = "ce_incr"
    /\ cb_half_open_calls' = OrZero(cb_half_open_calls) + 1
    /\ cb_worker' = [cb_worker EXCEPT ![w] = cb_return(@, "true")]
    /\ UNCHANGED cbOthers
    /\ UNCHANGED <<cb_now, cb_state, cb_failures, cb_successes, cb_opened_at>>

\* record_success in HALF_OPEN: successes = redis.incr(successes_key);
\* at success_threshold, _transition_to(CLOSED)
record_success_incr(w) ==
    /\ cb_worker[w].pc = "rs_incr"
    /\ OrZero(cb_successes) < MaxSuccesses
    /\ cb_successes' = OrZero(cb_successes) + 1
    /\ cb_worker' = [cb_worker EXCEPT ![w] =
                       IF OrZero(cb_successes) + 1 >= success_threshold
                       THEN [@ EXCEPT !.pc = "t_closed_1", !.target = "closed"]
                       ELSE cb_return(@, "recorded")]
    /\ UNCHANGED cbOthers
    /\ UNCHANGED <<cb_now, cb_state, cb_failures, cb_opened_at, cb_half_open_calls>>

\* a record_failure whose pipeline lacks the ZREMRANGEBYSCORE
record_failure_pipe_keeps_old(w) ==
    /\ cb_worker[w].pc = "rf_pipe"
    /\ LET live == cb_failures \cup {cb_now}
       IN  /\ cb_failures' = live
           /\ cb_worker' = [cb_worker EXCEPT ![w] =
                              IF Cardinality(live) >= failure_threshold
                              THEN [@ EXCEPT !.pc = "t_open_1", !.target = "open"]
                              ELSE cb_return(@, "recorded")]
    /\ UNCHANGED cbOthers
    /\ UNCHANGED <<cb_now, cb_state, cb_successes, cb_opened_at, cb_half_open_calls>>

\* record_failure in CLOSED: the pipeline ZREMRANGEBYSCORE 0 (now - window),
\* ZADD {str(now): now}, ZCARD, EXPIRE; at failure_threshold,
\* _transition_to(OPEN)
record_failure_pipe(w) ==
    /\ cb_worker[w].pc = "rf_pipe"
    /\ LET live == { f \in cb_failures : f > cb_now - window_size } \cup {cb_now}
       IN  /\ cb_failures' = live
           /\ cb_worker' = [cb_worker EXCEPT ![w] =
                              IF Cardinality(live) >= failure_threshold
                              THEN [@ EXCEPT !.pc = "t_open_1", !.target = "open"]
                              ELSE cb_return(@, "recorded")]
    /\ UNCHANGED cbOthers
    /\ UNCHANGED <<cb_now, cb_state, cb_successes, cb_opened_at, cb_half_open_calls>>

cb_tick ==
    /\ cb_now < MaxCbClock
    /\ cb_now' = cb_now + 1
    /\ UNCHANGED cbOthers
    /\ UNCHANGED <<cb_state, cb_failures, cb_successes, cb_opened_at,
                   cb_half_open_calls, cb_worker>>

(***************************************************************************)
(* DATABASE  (bookings and calendar_availability of one property)          *)
(* Every query of the code filters by property_id; the model follows one   *)
(* property.  A booking's id is its position in bookings.  0 stands for    *)
(* NULL in booking_reference, stripe_payment_intent_id and booking_id, ""  *)
(* for NULL in channel_booking_id.                                         *)
(***************************************************************************)
Dates == 1..MaxDate
Stays == { s \in Dates \X (2..(MaxDate + 1)) : s[1] < s[2] }

\* [check_in + timedelta(days=i) for i in range(num_nights)]
date_range(check_in, check_out) == check_in..(check_out - 1)

\* a date without a calendar_availability row
NoRow == [available |-> TRUE, availability_status |-> "none", booking_id |-> 0]

BookingIds == 1..Len(bookings)

\* a PaymentTransaction row: its booking and its transaction_type
payment_row(b) == [booking_id |-> b, transaction_type |-> "payment"]
refund_row(b) == [booking_id |-> b, transaction_type |-> "refund"]

DbInit ==
    /\ bookings = << >>
    /\ calendar = [d \in Dates |-> NoRow]
    /\ payment_transactions = EmptyBag

\* no booking event has been published
EvInit == published = EmptyBag

\* publish_booking_event(booking_id, event_type) as a background task
publish_booking_event(booking_id, event_type) ==
    published (+) SetToBag({<<event_type, booking_id>>})

\* Booking.check_in < check_out AND Booking.check_out > check_in
overlaps(b, check_in, check_out) ==
    /\ bookings[b].check_in < check_out
    /\ bookings[b].check_out > check_in

\* rows selected by booking_query of check_availability_internal
conflicting_bookings(check_in, check_out) ==
    { b \in BookingIds : /\ bookings[b].status \in {"reserved", "confirmed"}
                         /\ overlaps(b, check_in, check_out) }

\* rows selected by calendar_query of check_availability_internal
blocked_days(check_in, check_out) ==
    { d \in date_range(check_in, check_out) : calendar[d].available = FALSE }

\* "multiple" is scalar_one_or_none() raising MultipleResultsFound
check_availability_internal(check_in, check_out) ==
    IF Cardinality(conflicting_bookings(check_in, check_out)) > 1 THEN "multiple"
    ELSE IF conflicting_bookings(check_in, check_out) # {} THEN "dates_booked"
    ELSE IF blocked_days(check_in, check_out) # {} THEN "dates_blocked"
    ELSE "available"

RECURSIVE MaxReference(_)
MaxReference(n) ==
    IF n = 0 THEN 0 ELSE Max(bookings[n].booking_reference, MaxReference(n - 1))

\* PMS-<year>-<max + 1>; the model keeps the number
generate_booking_reference == MaxReference(Len(bookings)) + 1

\* the upsert of step 9: insert, or on conflict overwrite the row
block_calendar_dates(cal, check_in, check_out, b) ==
    [d \in Dates |-> IF d \in date_range(check_in, check_out)
                     THEN [available |-> FALSE, availability_status |-> "tentative",
                           booking_id |-> b]
                     ELSE cal[d]]

\* UPDATE ... SET availability_status = "booked" WHERE date IN range
mark_calendar_booked(cal, check_in, check_out) ==
    [d \in Dates |-> IF d \in date_range(check_in, check_out)
                        /\ cal[d].availability_status # "none"
                     THEN [cal[d] EXCEPT !.availability_status = "booked"]
                     ELSE cal[d]]

release_calendar_dates_keeps(cal, check_in, check_out, b) == cal

\* UPDATE ... SET available, "available", booking_id = NULL
\*        WHERE date IN range AND booking_id = b
release_calendar_dates(cal, check_in, check_out, b) ==
    [d \in Dates |-> IF d \in date_range(check_in, check_out) /\ cal[d].booking_id = b
                     THEN [available |-> TRUE, availability_status |-> "available",
                           booking_id |-> 0]
                     ELSE cal[d]]


(***************************************************************************)
(* RESERVATION FLOW  (backend-api-routes.py)                               *)
(* res_lock maps a lock key to the request holding it (0: key absent).     *)
(* The key is booking:lock:<property>:<check_in>:<check_out>, one per      *)
(* stay.  intents is the processor's list of PaymentIntent statuses, an    *)
(* intent's id being its position.                                         *)
(***************************************************************************)
Requests == 1..NumRequests
Ops == 1..NumOps
ImportTasks == 1..NumImports

ReqIdle == [pc |-> "idle", check_in |-> 0, check_out |-> 0, acquired |-> FALSE,
            reference |-> 0, intent |-> 0, resp |-> "none"]
OpIdle == [pc |-> "idle", kind |-> "none", booking |-> 0, intent |-> 0,
           refund |-> FALSE, refund_status |-> "none", resp |-> "none"]

ResInit ==
    /\ res_lock = [s \in Stays |-> 0]
    /\ res_req = [r \in Requests |-> ReqIdle]
    /\ res_op = [w \in Ops |-> OpIdle]
    /\ intents = << >>
    /\ stripe_seen = {}

lock_key(req) == <<req.check_in, req.check_out>>

\* the response of a request that has ended
create_return(req, resp) ==
    [ReqIdle EXCEPT !.pc = "done", !.check_in = req.check_in,
                    !.check_out = req.check_out, !.resp = resp]

\* the calls received so far: every worker serves one
Calls ==
    Cardinality({ r \in Requests : res_req[r].pc # "idle" })
    + Cardinality({ w \in Ops : res_op[w].pc # "idle" })
    + Cardinality({ t \in ImportTasks : imp_task[t].pc # "idle" })

\* POST /bookings arrives; step 1 (the property exists and is active)
create_booking(r, check_in, check_out) ==
    /\ res_req[r].pc = "idle"
    /\ \A q \in 1..(r - 1) : res_req[q].pc # "idle"
    /\ Calls < MaxCalls
    /\ res_req' = [res_req EXCEPT ![r] =
                     [ReqIdle EXCEPT !.pc = "lock", !.check_in = check_in,
                                     !.check_out = check_out]]
    /\ UNCHANGED resOthers
    /\ UNCHANGED <<dbVars, res_lock, res_op, intents, stripe_seen>>

\* step 2, lock.acquire succeeds: SET key token NX PX 60000
lock_acquire(r) ==
    /\ res_req[r].pc = "lock"
    /\ res_lock[lock_key(res_req[r])] = 0
    /\ res_lock' = [res_lock EXCEPT ![lock_key(res_req[r])] = r]
    /\ res_req' = [res_req EXCEPT ![r].pc = "check", ![r].acquired = TRUE]
    /\ UNCHANGED resOthers
    /\ UNCHANGED <<dbVars, res_op, intents, stripe_seen>>

\* step 2, blocking_timeout passes: HTTPException 409 is raised and the
\* finally clause releases a lock this request never acquired
lock_acquire_timeout(r) ==
    /\ res_req[r].pc = "lock"
    /\ res_lock[lock_key(res_req[r])] # 0
    /\ res_req' = [res_req EXCEPT ![r].pc = "release", ![r].resp = "409"]
    /\ UNCHANGED resOthers
    /\ UNCHANGED <<dbVars, res_lock, res_op, intents, stripe_seen>>

\* the 60 s lease of a held lock runs out
lock_expire(s) ==
    /\ res_lock[s] # 0
    /\ res_lock' = [res_lock EXCEPT ![s] = 0]
    /\ UNCHANGED resOthers
    /\ UNCHANGED <<dbVars, res_req, res_op, intents, stripe_seen>>

\* step 3: the availability queries
create_check_availability(r) ==
    /\ res_req[r].pc = "check"
    /\ LET a == check_availability_internal(res_req[r].check_in, res_req[r].check_out)
       IN res_req' = [res_req EXCEPT ![r] =
            IF a = "available"
            THEN [@ EXCEPT !.pc = "intent"]
            ELSE IF a = "multiple"
            THEN [@ EXCEPT !.pc = "release", !.resp = "500"]
            ELSE [@ EXCEPT !.pc = "release", !.resp = "409"]]
    /\ UNCHANGED resOthers
    /\ UNCHANGED <<dbVars, res_lock, res_op, intents, stripe_seen>>

\* steps 4-7: the reference query, then stripe.PaymentIntent.create
create_payment_intent(r) ==
    /\ res_req[r].pc = "intent"
    /\ intents' = Append(intents, "requires_payment_method")
    /\ res_req' = [res_req EXCEPT ![r].pc = "commit",
                                  ![r].reference = generate_booking_reference,
                                  ![r].intent = Len(intents) + 1]
    /\ UNCHANGED resOthers
    /\ UNCHANGED <<dbVars, res_lock, res_op, stripe_seen>>

\* step 7 raising StripeError
create_payment_intent_error(r) ==
    /\ res_req[r].pc = "intent"
    /\ res_req' = [res_req EXCEPT ![r].pc = "release", ![r].resp = "500"]
    /\ UNCHANGED resOthers
    /\ UNCHANGED <<dbVars, res_lock, res_op, intents, stripe_seen>>

references_in_use == { bookings[b].booking_reference : b \in BookingIds } \ {0}

\* steps 8-9 and the commit: the booking row and the upserted cells; the
\* unique index on booking_reference raises IntegrityError
create_commit(r) ==
    /\ res_req[r].pc = "commit"
    /\ IF res_req[r].reference \in references_in_use
       THEN /\ res_req' = [res_req EXCEPT ![r].pc = "release", ![r].resp = "409"]
            /\ UNCHANGED dbVars
       ELSE /\ bookings' = Append(bookings,
                  [check_in |-> res_req[r].check_in,
                   check_out |-> res_req[r].check_out,
                   status |-> "reserved", payment_status |-> "pending",
                   source |-> "direct", channel_booking_id |-> "",
                   booking_reference |-> res_req[r].reference,
                   stripe_payment_intent_id |-> res_req[r].intent])
            /\ calendar' = block_calendar_dates(calendar, res_req[r].check_in,
                               res_req[r].check_out, Len(bookings) + 1)
            /\ res_req' = [res_req EXCEPT ![r].pc = "release", ![r].resp = "reserved"]
            /\ UNCHANGED payment_transactions
    /\ UNCHANGED resOthers
    /\ UNCHANGED <<res_lock, res_op, intents, stripe_seen>>

\* finally: lock.release().  The release script deletes the key only when
\* it still holds this request's token; otherwise release raises
\* (LockError when never acquired, LockNotOwnedError after the lease) and
\* the request answers 500.
lock_release(r) ==
    /\ res_req[r].pc = "release"
    /\ IF res_req[r].acquired /\ res_lock[lock_key(res_req[r])] = r
       THEN /\ res_lock' = [res_lock EXCEPT ![lock_key(res_req[r])] = 0]
            /\ res_req' = [res_req EXCEPT ![r] = create_return(@, @.resp)]
       ELSE /\ res_req' = [res_req EXCEPT ![r] = create_return(@, "500")]
            /\ UNCHANGED res_lock
    /\ UNCHANGED resOthers
    /\ UNCHANGED <<dbVars, res_op, intents, stripe_seen>>


\* a call of an operation on a booking, before its first step
op_call(kind, b, i) == [OpIdle EXCEPT !.kind = kind, !.booking = b, !.intent = i]

\* an operation's answer
op_return(op, resp) == [op EXCEPT !.pc = "done", !.resp = resp]

\* the next call goes to the first worker that has not served one
op_free(w) ==
    /\ Calls < MaxCalls
    /\ res_op[w].pc = "idle"
    /\ \A v \in 1..(w - 1) : res_op[v].pc # "idle"

\* the guest's payment succeeds at the processor
payment_succeeds(i) ==
    /\ i \in 1..Len(intents)
    /\ intents[i] = "requires_payment_method"
    /\ intents' = [intents EXCEPT ![i] = "succeeded"]
    /\ UNCHANGED resOthers
    /\ UNCHANGED <<dbVars, res_lock, res_req, res_op, stripe_seen>>

\* confirm_booking up to the processor call: the row is loaded and checked
confirm_booking(w, b, payment_intent_id) ==
    /\ op_free(w)
    /\ b \in BookingIds
    /\ res_op' = [res_op EXCEPT ![w] =
         IF bookings[b].status = "confirmed" /\ bookings[b].payment_status = "paid"
         THEN op_return(op_call("confirm", b, payment_intent_id), "confirmed")
         ELSE IF bookings[b].status # "reserved"
         THEN op_return(op_call("confirm", b, payment_intent_id), "400")
         ELSE IF bookings[b].stripe_payment_intent_id # payment_intent_id
         THEN op_return(op_call("confirm", b, payment_intent_id), "400")
         ELSE [op_call("confirm", b, payment_intent_id) EXCEPT !.pc = "write"]]
    /\ UNCHANGED resOthers
    /\ UNCHANGED <<dbVars, res_lock, res_req, intents, stripe_seen>>

\* the attributes confirm_booking and the payment webhook assign
confirmed(row) == [row EXCEPT !.status = "confirmed", !.payment_status = "paid"]

\* a confirm_booking that inserts its transaction row before it looks at
\* the retrieved intent's status
confirm_commit_row_first(w) ==
    /\ res_op[w].pc = "write" /\ res_op[w].kind = "confirm"
    /\ LET b == res_op[w].booking
       IN /\ payment_transactions' = payment_transactions (+) SetToBag({payment_row(b)})
          /\ IF intents[bookings[b].stripe_payment_intent_id] # "succeeded"
             THEN /\ res_op' = [res_op EXCEPT ![w] = op_return(@, "400")]
                  /\ UNCHANGED <<bookings, calendar, published>>
             ELSE /\ bookings' = [bookings EXCEPT ![b] = confirmed(@)]
                  /\ calendar' = mark_calendar_booked(calendar, bookings[b].check_in,
                                                      bookings[b].check_out)
                  /\ published' = publish_booking_event(b, "booking.confirmed")
                  /\ res_op' = [res_op EXCEPT ![w] = op_return(@, "confirmed")]
    /\ UNCHANGED pubOthers
    /\ UNCHANGED <<res_lock, res_req, intents, stripe_seen>>

\* PaymentIntent.retrieve, then the UPDATEs and the commit
confirm_commit(w) ==
    /\ res_op[w].pc = "write" /\ res_op[w].kind = "confirm"
    /\ LET b == res_op[w].booking
       IN IF intents[bookings[b].stripe_payment_intent_id] # "succeeded"
          THEN /\ res_op' = [res_op EXCEPT ![w] = op_return(@, "400")]
               /\ UNCHANGED <<dbVars, published>>
          ELSE /\ bookings' = [bookings EXCEPT ![b] = confirmed(@)]
               /\ calendar' = mark_calendar_booked(calendar, bookings[b].check_in,
                                                   bookings[b].check_out)
               /\ payment_transactions' = payment_transactions (+) SetToBag({payment_row(b)})
               /\ published' = publish_booking_event(b, "booking.confirmed")
               /\ res_op' = [res_op EXCEPT ![w] = op_return(@, "confirmed")]
    /\ UNCHANGED pubOthers
    /\ UNCHANGED <<res_lock, res_req, intents, stripe_seen>>

\* cancel_booking up to the refund: refund is "refund_amount is truthy",
\* what calculate_refund_amount gives for a paid booking by the days left
cancel_booking(w, b, refund) ==
    /\ op_free(w)
    /\ b \in BookingIds
    /\ refund => (bookings[b].payment_status = "paid"
                  /\ bookings[b].stripe_payment_intent_id # 0)
    /\ res_op' = [res_op EXCEPT ![w] =
         IF bookings[b].status = "cancelled"
         THEN op_return(op_call("cancel", b, 0), "400")
         ELSE [op_call("cancel", b, 0) EXCEPT !.pc = "write", !.refund = refund]]
    /\ UNCHANGED resOthers
    /\ UNCHANGED <<dbVars, res_lock, res_req, intents, stripe_seen>>

\* stripe.Refund.create when a refund is due, which returns (refund_status
\* "completed", or "processing" for a pending refund: the row of the refund
\* is added) or raises StripeError (refund_status "failed"); then the
\* booking UPDATE, the release of its cells and the commit
cancel_commit(w) ==
    /\ res_op[w].pc = "write" /\ res_op[w].kind = "cancel"
    /\ LET b == res_op[w].booking
       IN /\ bookings' = [bookings EXCEPT ![b] =
                 [@ EXCEPT !.status = "cancelled",
                           !.payment_status = IF res_op[w].refund THEN "refunded" ELSE @]]
          /\ calendar' = release_calendar_dates(calendar, bookings[b].check_in,
                                                bookings[b].check_out, b)
          /\ published' = publish_booking_event(b, "booking.cancelled")
          /\ \E refund_status \in IF res_op[w].refund THEN {"completed", "failed"}
                                   ELSE {"none"} :
                /\ payment_transactions' =
                      IF refund_status = "completed"
                      THEN payment_transactions (+) SetToBag({refund_row(b)})
                      ELSE payment_transactions
                /\ res_op' = [res_op EXCEPT ![w] =
                      op_return([@ EXCEPT !.refund_status = refund_status], "cancelled")]
    /\ UNCHANGED pubOthers
    /\ UNCHANGED <<res_lock, res_req, intents, stripe_seen>>

\* cancel_expired_booking_task up to its checks
cancel_expired_booking_task(w, b) ==
    /\ op_free(w)
    /\ b \in BookingIds
    /\ res_op' = [res_op EXCEPT ![w] =
         IF bookings[b].status # "reserved"
         THEN op_return(op_call("expire", b, 0), "kept")
         ELSE IF bookings[b].payment_status # "pending"
         THEN op_return(op_call("expire", b, 0), "kept")
         ELSE [op_call("expire", b, 0) EXCEPT !.pc = "write"]]
    /\ UNCHANGED resOthers
    /\ UNCHANGED <<dbVars, res_lock, res_req, intents, stripe_seen>>

cancel_intent_skips(ints, i) == ints

\* PaymentIntent.cancel: an intent that has succeeded cannot be cancelled
cancel_intent(ints, i) ==
    IF i # 0 /\ ints[i] = "requires_payment_method"
    THEN [ints EXCEPT ![i] = "canceled"] ELSE ints

\* the expiry: booking UPDATE, release of its cells, intent cancel, commit
expire_commit(w) ==
    /\ res_op[w].pc = "write" /\ res_op[w].kind = "expire"
    /\ LET b == res_op[w].booking
       IN /\ bookings' = [bookings EXCEPT ![b] =
                 [@ EXCEPT !.status = "cancelled", !.payment_status = "expired"]]
          /\ calendar' = release_calendar_dates(calendar, bookings[b].check_in,
                                                bookings[b].check_out, b)
          /\ intents' = cancel_intent(intents, bookings[b].stripe_payment_intent_id)
    /\ res_op' = [res_op EXCEPT ![w] = op_return(@, "expired")]
    /\ UNCHANGED resOthers
    /\ UNCHANGED payment_transactions
    /\ UNCHANGED <<res_lock, res_req, stripe_seen>>


\* the booking a payment event belongs to (0: none)
booking_of_intent(i) ==
    IF \E b \in BookingIds : bookings[b].stripe_payment_intent_id = i
    THEN CHOOSE b \in BookingIds : bookings[b].stripe_payment_intent_id = i
    ELSE 0

\* stripe_webhook up to its UPDATE: the event-id check and the row lookup.
\* An event is <<type, intent>>; a branch that finds nothing to update goes
\* straight to the setex of the event id.
stripe_webhook(w, type, i) ==
    /\ op_free(w)
    /\ i \in 1..Len(intents)
    /\ type = "payment_intent.succeeded" => intents[i] = "succeeded"
    /\ LET b == booking_of_intent(i)
           update == /\ b # 0
                     /\ type = "payment_intent.succeeded" => bookings[b].status = "reserved"
       IN IF <<type, i>> \in stripe_seen
          THEN /\ res_op' = [res_op EXCEPT ![w] =
                               op_return(op_call(type, b, i), "already_processed")]
               /\ UNCHANGED stripe_seen
          ELSE IF update
          THEN /\ res_op' = [res_op EXCEPT ![w] =
                               [op_call(type, b, i) EXCEPT !.pc = "write"]]
               /\ UNCHANGED stripe_seen
          ELSE /\ res_op' = [res_op EXCEPT ![w] = op_return(op_call(type, b, i), "success")]
               /\ stripe_seen' = stripe_seen \cup {<<type, i>>}
    /\ UNCHANGED resOthers
    /\ UNCHANGED <<dbVars, res_lock, res_req, intents>>

\* the UPDATE and commit of the event's branch, then the setex
stripe_webhook_commit(w) ==
    /\ res_op[w].pc = "write"
    /\ res_op[w].kind \in {"payment_intent.succeeded", "payment_intent.payment_failed"}
    /\ LET b == res_op[w].booking
       IN /\ IF res_op[w].kind = "payment_intent.succeeded"
             THEN /\ bookings' = [bookings EXCEPT ![b] = confirmed(@)]
                  /\ calendar' = mark_calendar_booked(calendar, bookings[b].check_in,
                                                      bookings[b].check_out)
                  /\ published' = publish_booking_event(b, "booking.confirmed")
             ELSE /\ bookings' = [bookings EXCEPT ![b].payment_status = "failed"]
                  /\ UNCHANGED <<calendar, published>>
          /\ stripe_seen' = stripe_seen
                 \cup {<<res_op[w].kind, bookings[b].stripe_payment_intent_id>>}
    /\ res_op' = [res_op EXCEPT ![w] = op_return(@, "success")]
    /\ UNCHANGED pubOthers
    /\ UNCHANGED payment_transactions
    /\ UNCHANGED <<res_lock, res_req, intents>>


(***************************************************************************)
(* WEBHOOK INGRESS AND IMPORT  (webhook-handlers.py, sync-engine.py)       *)
(* The Airbnb endpoint; the other channel endpoints have its shape.  A     *)
(* body carries the four top-level fields generate_idempotency_key reads   *)
(* ("": absent) and the nested reservation.  wh_seen holds the webhook:<key>*)
(* keys, imported the imported:<key> keys; behaviours are shorter than     *)
(* the keys' 24 h TTL.  fanout holds the bookings handed to                *)
(* sync_to_other_channels.                                                 *)
(***************************************************************************)
Deliveries == 1..NumDeliveries

\* the channel's reservations by confirmation code: accepted one-night
\* stays of a connected or an unconnected listing
Reservations ==
    { [confirmation_code |-> c, listing_connected |-> l,
       stay |-> IF c = "HMA1" THEN <<1, 2>> ELSE <<MaxDate, MaxDate + 1>>,
       status |-> "accepted"] : c \in {"HMA1", "HMA2"}, l \in BOOLEAN }

\* Airbnb nests the reservation: of the key's fields only event_id is sent
AirbnbBodies ==
    [event_type : {"reservation.created", "reservation.cancelled"},
     reservation_id : {""}, booking_id : {""}, updated_at : {""},
     event_id : {"", "evt_1"}, reservation : Reservations]

\* the bodies whose reservation a handler hands to import_channel_booking
ImportedBodies ==
    { body \in AirbnbBodies : /\ body.event_type = "reservation.created"
                              /\ body.reservation.listing_connected }

NoBody == [event_type |-> "none", reservation_id |-> "", booking_id |-> "",
           updated_at |-> "", event_id |-> "",
           reservation |-> [confirmation_code |-> "", listing_connected |-> FALSE,
                            stay |-> <<0, 0>>, status |-> "none"]]

CallIdle == [pc |-> "idle", body |-> NoBody, task |-> "none", resp |-> "none"]
NoKey == << >>
TaskIdle == [pc |-> "idle", key |-> NoKey, data |-> NoBody.reservation,
             booking |-> 0, resp |-> "none"]

IngInit ==
    /\ wh_seen = {}
    /\ wh_call = [d \in Deliveries |-> CallIdle]
    /\ imported = {}
    /\ imp_task = [t \in ImportTasks |-> TaskIdle]
    /\ fanout = {}

nonempty(x) == x # ""

\* ":".join(filter(None, unique_parts)), hashed: the parts that are present,
\* in order, without their positions
generate_idempotency_key(channel_type, payload) ==
    SelectSeq(<<channel_type, payload.reservation_id, payload.booking_id,
                payload.updated_at, payload.event_id>>, nonempty)

is_already_processed(idempotency_key) == idempotency_key \in wh_seen

\* a delivery with a valid signature and body arrives
airbnb_webhook(d, body) ==
    /\ wh_call[d].pc = "idle"
    /\ \A e \in 1..(d - 1) : wh_call[e].pc # "idle"
    /\ wh_call' = [wh_call EXCEPT ![d] =
                     [CallIdle EXCEPT !.pc = "check", !.body = body]]
    /\ UNCHANGED ingOthers
    /\ UNCHANGED <<dbVars, wh_seen, imported, imp_task, fanout>>

seen_response_dispatches(call) ==
    [call EXCEPT !.pc = "background", !.task = "import", !.resp = "already_processed"]

\* the answer to a delivery whose key is already marked
seen_response(call) == [call EXCEPT !.pc = "done", !.resp = "already_processed"]

\* the event-type branches: connection lookup and background_tasks.add_task
dispatch(call) ==
    IF call.body.event_type = "reservation.created"
    THEN IF call.body.reservation.listing_connected
         THEN [call EXCEPT !.pc = "mark", !.task = "import"]
         ELSE [call EXCEPT !.pc = "done", !.resp = "skipped"]
    ELSE [call EXCEPT !.pc = "mark", !.task = "cancellation"]

\* redis.exists(webhook:<key>), then the branch of the event type
webhook_check(d) ==
    /\ wh_call[d].pc = "check"
    /\ wh_call' = [wh_call EXCEPT ![d] =
         IF is_already_processed(generate_idempotency_key("airbnb", wh_call[d].body))
         THEN seen_response(@)
         ELSE dispatch(@)]
    /\ UNCHANGED ingOthers
    /\ UNCHANGED <<dbVars, wh_seen, imported, imp_task, fanout>>

\* mark_as_processed, then the response; the background task follows it.
\* _process_airbnb_cancellation imports handle_channel_cancellation, which
\* sync-engine.py does not define: that task ends in ImportError at once.
webhook_mark(d) ==
    /\ wh_call[d].pc = "mark"
    /\ wh_seen' = wh_seen \cup {generate_idempotency_key("airbnb", wh_call[d].body)}
    /\ wh_call' = [wh_call EXCEPT
                     ![d].pc = IF wh_call[d].task = "import" THEN "background" ELSE "done",
                     ![d].resp = "accepted"]
    /\ UNCHANGED ingOthers
    /\ UNCHANGED <<dbVars, imported, imp_task, fanout>>

\* a queued task goes to the first worker that has not run one
task_free(t) ==
    /\ imp_task[t].pc = "idle"
    /\ \A u \in 1..(t - 1) : imp_task[u].pc # "idle"

\* import_channel_booking.delay(...): the task is queued
queue_import(t, idempotency_key, booking_data) ==
    /\ task_free(t)
    /\ Calls < MaxCalls
    /\ imp_task' = [imp_task EXCEPT ![t] =
         [TaskIdle EXCEPT !.pc = "idem", !.key = idempotency_key,
                          !.data = booking_data]]

\* the background task runs after the response: import_channel_booking.delay
webhook_import_delay(d, t) ==
    /\ wh_call[d].pc = "background" /\ wh_call[d].task = "import"
    /\ queue_import(t, generate_idempotency_key("airbnb", wh_call[d].body),
                    wh_call[d].body.reservation)
    /\ wh_call' = [wh_call EXCEPT ![d].pc = "done"]
    /\ UNCHANGED ingOthers
    /\ UNCHANGED <<dbVars, wh_seen, imported, fanout>>

\* status_maps["airbnb"], .get(channel_status, "pending")
map_channel_status_to_pms(channel_status) ==
    CASE channel_status = "accepted" -> "confirmed"
      [] channel_status = "denied" -> "declined"
      [] channel_status \in {"cancelled", "cancelled_by_host", "cancelled_by_guest"}
           -> "cancelled"
      [] OTHER -> "pending"

\* the task import_channel_booking is called by a webhook handler or by the
\* poller, with the key its caller computed
import_channel_booking(t, idempotency_key, booking_data) ==
    /\ queue_import(t, idempotency_key, booking_data)
    /\ UNCHANGED ingOthers
    /\ UNCHANGED <<dbVars, wh_seen, wh_call, imported, fanout>>

\* redis.exists(imported:<key>), then the connection row and the sync log
import_check_idempotency(t) ==
    /\ imp_task[t].pc = "idem"
    /\ imp_task' = [imp_task EXCEPT ![t] =
         IF @.key \in imported
         THEN [@ EXCEPT !.pc = "done", !.resp = "already_imported"]
         ELSE [@ EXCEPT !.pc = "insert"]]
    /\ UNCHANGED ingOthers
    /\ UNCHANGED <<dbVars, wh_seen, wh_call, imported, fanout>>

\* the unique index on bookings(source, channel_booking_id)
unique_source_channel_booking_id(source, channel_booking_id) ==
    \A b \in BookingIds :
        ~(bookings[b].source = source
          /\ bookings[b].channel_booking_id = channel_booking_id)

on_integrity_error_continues(task) == [task EXCEPT !.pc = "mark"]

\* except IntegrityError: rollback, log, return duplicate
on_integrity_error(task) == [task EXCEPT !.pc = "done", !.resp = "duplicate"]

\* INSERT INTO bookings and commit; no calendar row is written
import_insert(t) ==
    /\ imp_task[t].pc = "insert"
    /\ IF unique_source_channel_booking_id("airbnb", imp_task[t].data.confirmation_code)
       THEN /\ bookings' = Append(bookings,
                  [check_in |-> imp_task[t].data.stay[1],
                   check_out |-> imp_task[t].data.stay[2],
                   status |-> map_channel_status_to_pms(imp_task[t].data.status),
                   payment_status |-> "external",
                   source |-> "airbnb",
                   channel_booking_id |-> imp_task[t].data.confirmation_code,
                   booking_reference |-> 0,
                   stripe_payment_intent_id |-> 0])
            /\ imp_task' = [imp_task EXCEPT ![t].pc = "mark",
                                            ![t].booking = Len(bookings) + 1]
       ELSE /\ imp_task' = [imp_task EXCEPT ![t] = on_integrity_error(@)]
            /\ UNCHANGED bookings
    /\ UNCHANGED ingOthers
    /\ UNCHANGED <<calendar, payment_transactions, wh_seen, wh_call, imported, fanout>>

import_mark_forgets(t) ==
    /\ imp_task[t].pc = "mark"
    /\ imp_task' = [imp_task EXCEPT ![t].pc = "fanout"]
    /\ UNCHANGED ingOthers
    /\ UNCHANGED <<dbVars, wh_seen, wh_call, imported, fanout>>

\* redis.setex(imported:<key>)
import_mark(t) ==
    /\ imp_task[t].pc = "mark"
    /\ imported' = imported \cup {imp_task[t].key}
    /\ imp_task' = [imp_task EXCEPT ![t].pc = "fanout"]
    /\ UNCHANGED ingOthers
    /\ UNCHANGED <<dbVars, wh_seen, wh_call, fanout>>

\* sync_to_other_channels.delay(booking_id), return success
import_fanout(t) ==
    /\ imp_task[t].pc = "fanout"
    /\ fanout' = fanout \cup {imp_task[t].booking}
    /\ imp_task' = [imp_task EXCEPT ![t].pc = "done", ![t].resp = "success"]
    /\ UNCHANGED ingOthers
    /\ UNCHANGED <<dbVars, wh_seen, wh_call, imported>>


(***************************************************************************)
(* OUTBOUND FAN-OUT  (sync-engine.py)                                      *)
(* The channel_connections rows of the property: one connection of every   *)
(* kind the queries tell apart, a row standing for its id.                 *)
(* availability_tasks is the bag of queued update_channel_availability     *)
(* calls, fanout_ran the bookings whose sync_to_other_channels has run.    *)
(***************************************************************************)
Channels == {"airbnb", "booking_com"}

channel_connections ==
    [channel_type : Channels, sync_enabled : BOOLEAN,
     status : {"active", "paused"}, sync_availability : BOOLEAN,
     sync_direction : {"bidirectional", "outbound_only", "inbound_only"}]

SyncInit ==
    /\ fanout_ran = {}
    /\ availability_tasks = EmptyBag

\* the WHERE clause the outbound handlers share
outbound_connections ==
    { conn \in channel_connections :
        /\ conn.sync_enabled
        /\ conn.status = "active"
        /\ conn.sync_availability
        /\ conn.sync_direction \in {"bidirectional", "outbound_only"} }

other_channel_connections_all(exclude_channel) == outbound_connections

\* ... AND channel_type != exclude_channel
other_channel_connections(exclude_channel) ==
    { conn \in outbound_connections : conn.channel_type # exclude_channel }

\* update_channel_availability.delay(...) for each of the connections
delay_update_channel_availability(conns, check_in, check_out, available) ==
    availability_tasks (+)
        SetToBag({ [connection |-> conn, check_in |-> check_in,
                    check_out |-> check_out, available |-> available] :
                   conn \in conns })

\* the task sync_to_other_channels(booking_id, property_id, exclude_channel)
\* that an import queued
sync_to_other_channels(b, exclude_channel) ==
    /\ b \in fanout \ fanout_ran
    /\ exclude_channel = bookings[b].source
    /\ fanout_ran' = fanout_ran \cup {b}
    /\ availability_tasks' =
          delay_update_channel_availability(
              other_channel_connections(exclude_channel),
              bookings[b].check_in, bookings[b].check_out, FALSE)
    /\ UNCHANGED syncOthers
    /\ UNCHANGED <<ingVars, recVars>>


(***************************************************************************)
(* EVENT STREAM  (sync-engine.py, process_pms_event_stream)                *)
(* stream is the pms:events stream, a message's id being its position.     *)
(* last_delivered is the last-delivered id of the consumer group           *)
(* channel_manager, pel its pending-entries list, batch the messages the   *)
(* running task has read and not yet handled, handler_queue the bag of     *)
(* queued handler tasks.                                                   *)
(***************************************************************************)
PmsEvents ==
    [event_type : {"booking.confirmed", "booking.cancelled", "guest.updated"},
     source : {"direct", "airbnb", "booking_com"},
     check_in : {1}, check_out : {2}]

StrInit ==
    /\ stream = << >>
    /\ last_delivered = 0
    /\ pel = {}
    /\ batch = << >>
    /\ handler_queue = EmptyBag

\* PMS-Core appends an event to the stream
xadd(event) ==
    /\ Len(stream) < NumMessages
    /\ stream' = Append(stream, event)
    /\ UNCHANGED <<last_delivered, pel, batch, handler_queue>>
    /\ UNCHANGED strOthers

\* streams={"pms:events": ">"}: the messages never delivered to the group
deliverable(message_id) == message_id > last_delivered

\* a run of the task starts: XREADGROUP ... count
process_pms_event_stream ==
    /\ batch = << >>
    /\ \E message_id \in 1..Len(stream) : deliverable(message_id)
    /\ LET last == Min(Len(stream), last_delivered + read_count)
       IN /\ batch' = [n \in 1..(last - last_delivered) |-> last_delivered + n]
          /\ pel' = pel \cup { m \in 1..last : deliverable(m) }
          /\ last_delivered' = last
    /\ UNCHANGED <<stream, handler_queue>>
    /\ UNCHANGED strOthers

\* the handlers dict of route_event
handlers == {"booking.confirmed", "booking.cancelled",
             "availability.updated", "pricing.updated"}

\* route_event returns, then XACK
route_event(message_id) ==
    /\ batch # << >> /\ message_id = Head(batch)
    /\ handler_queue' = IF stream[message_id].event_type \in handlers
                        THEN handler_queue (+) SetToBag({stream[message_id]})
                        ELSE handler_queue
    /\ pel' = pel \ {message_id}
    /\ batch' = Tail(batch)
    /\ UNCHANGED <<stream, last_delivered>>
    /\ UNCHANGED strOthers

\* decoding or handler.delay raises: the except clause logs, no XACK
route_event_raises(message_id) ==
    /\ batch # << >> /\ message_id = Head(batch)
    /\ batch' = Tail(batch)
    /\ UNCHANGED <<stream, last_delivered, pel, handler_queue>>
    /\ UNCHANGED strOthers

\* the queued task handle_booking_confirmed_event runs
handle_booking_confirmed_event(event) ==
    /\ BagIn(event, handler_queue) /\ event.event_type = "booking.confirmed"
    /\ handler_queue' = handler_queue (-) SetToBag({event})
    /\ availability_tasks' =
          delay_update_channel_availability(
              { conn \in outbound_connections : conn.channel_type # event.source },
              event.check_in, event.check_out, FALSE)
    /\ UNCHANGED <<stream, last_delivered, pel, batch, fanout_ran>>
    /\ UNCHANGED <<rlVars, cbVars, dbVars, resVars, ingVars, evVars, recVars, tkVars, gVars>>

\* the queued task handle_booking_cancelled_event runs
handle_booking_cancelled_event(event) ==
    /\ BagIn(event, handler_queue) /\ event.event_type = "booking.cancelled"
    /\ handler_queue' = handler_queue (-) SetToBag({event})
    /\ availability_tasks' =
          delay_update_channel_availability(outbound_connections,
              event.check_in, event.check_out, TRUE)
    /\ UNCHANGED <<stream, last_delivered, pel, batch, fanout_ran>>
    /\ UNCHANGED <<rlVars, cbVars, dbVars, resVars, ingVars, evVars, recVars, tkVars, gVars>>


(***************************************************************************)
(* RECONCILIATION AND THE AVAILABILITY WRITE  (sync-engine.py)             *)
(* remote is the dict adapter.get_availability returns for one active      *)
(* connection: the dates the channel reports, each with its value.         *)
(* reconcile_ran tells that reconcile_single_connection has run for it.    *)
(***************************************************************************)
reconciled_connection ==
    [channel_type |-> "airbnb", sync_enabled |-> TRUE, status |-> "active",
     sync_availability |-> TRUE, sync_direction |-> "bidirectional"]

RecInit ==
    /\ remote = << >>
    /\ reconcile_ran = FALSE

\* pms_availability.get(cal_date, True)
pms_available(cal_date) == calendar[cal_date].available

\* the dates on which the channel's value differs from the local one
mismatches == { d \in DOMAIN remote : remote[d] # pms_available(d) }

\* the run for the connection: one correction per mismatching date
reconcile_single_connection ==
    /\ ~reconcile_ran
    /\ reconcile_ran' = TRUE
    /\ availability_tasks' =
          availability_tasks (+)
             SetToBag({ [connection |-> reconciled_connection, check_in |-> d,
                         check_out |-> d + 1, available |-> pms_available(d)] :
                        d \in mismatches })
    /\ UNCHANGED <<remote, fanout_ran>>
    /\ UNCHANGED syncOthers
    /\ UNCHANGED ingVars

\* the channel applies a write to the nights start_date..end_date-1
adapter_update_availability(cal, start_date, end_date, available) ==
    [d \in DOMAIN cal \cup date_range(start_date, end_date) |->
        IF d \in date_range(start_date, end_date) THEN available ELSE cal[d]]

\* a queued update_channel_availability runs through: rate limit granted,
\* circuit not open, adapter.update_availability returns
update_channel_availability(task) ==
    /\ BagIn(task, availability_tasks)
    /\ availability_tasks' = availability_tasks (-) SetToBag({task})
    /\ remote' = IF task.connection = reconciled_connection
                 THEN adapter_update_availability(remote, task.check_in,
                                                  task.check_out, task.available)
                 ELSE remote
    /\ UNCHANGED <<reconcile_ran, fanout_ran>>
    /\ UNCHANGED syncOthers
    /\ UNCHANGED ingVars

\* circuit_breaker.can_execute() is false: the task returns skipped
update_channel_availability_skipped(task) ==
    /\ BagIn(task, availability_tasks)
    /\ availability_tasks' = availability_tasks (-) SetToBag({task})
    /\ UNCHANGED <<remote, reconcile_ran, fanout_ran>>
    /\ UNCHANGED syncOthers
    /\ UNCHANGED ingVars

\* the rate limit or the adapter fails on every attempt: after max_retries
\* the task is given up
update_channel_availability_failed(task) ==
    /\ BagIn(task, availability_tasks)
    /\ availability_tasks' = availability_tasks (-) SetToBag({task})
    /\ UNCHANGED <<remote, reconcile_ran, fanout_ran>>
    /\ UNCHANGED syncOthers
    /\ UNCHANGED ingVars


(***************************************************************************)
(* OUTBOUND WRITE TASK AND TOKEN REFRESH  (sync-engine.py)                 *)
(* One connection row (status, error_count), one update_channel_* task     *)
(* with Celery's retry counter, the SyncLog rows its attempts close, and   *)
(* the runs of refresh_expiring_tokens.  refresh_failures counts the       *)
(* refresh failures since the last successful refresh.  The answers of the  *)
(* rate limiter and of the circuit breaker are inputs of an attempt.       *)
(* write_task.failures_recorded counts the task's calls of                 *)
(* circuit_breaker.record_failure(), attempts its executions, met what its *)
(* last attempt met and countdown the delay of the retry it scheduled last.*)
(***************************************************************************)
TaskKinds ==
    {"update_channel_availability", "update_channel_pricing", "poll_single_channel"}

\* @celery.task(bind=True, max_retries=...): 5 for the two write tasks and 3
\* for poll_single_channel, scaled to max_retries and poll_max_retries
task_max_retries(kind) ==
    IF kind = "poll_single_channel" THEN poll_max_retries ELSE max_retries

\* calculate_retry_delay: base_delays[min(retries, len(base_delays) - 1)]
base_delays == <<2, 4, 8, 16, 32>>

base_delay(retries) ==
    base_delays[(IF retries < Len(base_delays) - 1 THEN retries
                 ELSE Len(base_delays) - 1) + 1]

\* random.uniform(0, base / 2), at whole seconds
Jitters(retries) == 0..(base_delay(retries) \div 2)

calculate_retry_delay(retries, jitter) == base_delay(retries) + jitter

\* what an attempt meets: the rate limiter refuses, the breaker refuses, the
\* adapter returns, or _make_request raises for a 400, a 404 or a 5xx response
AttemptOutcomes ==
    {"rate_limited", "circuit_open", "ok", "ValidationError",
     "ResourceNotFoundError", "ChannelAdapterError"}

\* the exception an attempt's try block ends with.  A refused acquire runs
\* "raise task.retry(exc=RateLimitExceeded(conn.channel_type), ...)":
\* RateLimitExceeded.__init__ takes channel_type, current_count, limit and
\* retry_after, so building the argument raises TypeError before task.retry
\* is called
raised_exception(outcome) ==
    IF outcome = "rate_limited" THEN "TypeError" ELSE outcome

TaskInit ==
    /\ connection = [status |-> "active", error_count |-> 0]
    /\ write_task \in [kind : TaskKinds, pc : {"queued"}, retries : {0},
                       adapter_calls : {0}, result : {"none"}, attempts : {0},
                       countdown : {0}, failures_recorded : {0}, met : {"none"}]
    /\ sync_logs = << >>
    /\ refresh = [pc |-> "idle", error_count |-> 0, runs |-> 0]
    /\ refresh_failures = 0

\* log_sync_start ... log_sync_complete(log_id, status)
log_sync_complete(status, exception) ==
    Append(sync_logs, [status |-> status, exception |-> exception])

\* a task.retry that reschedules whatever the retries used
task_retry_uncapped(task, jitter) ==
    [task EXCEPT !.retries = @ + 1,
                 !.countdown = calculate_retry_delay(task.retries, jitter)]

\* raise task.retry(exc=e, countdown=calculate_retry_delay(retries)):
\* whatever the exception, another attempt is scheduled until max_retries is
\* used up, and then the exception is raised
task_retry(task, jitter) ==
    IF task.retries < task_max_retries(task.kind)
    THEN [task EXCEPT !.retries = @ + 1,
                      !.countdown = calculate_retry_delay(task.retries, jitter)]
    ELSE [task EXCEPT !.pc = "done", !.result = "failed"]

\* one attempt of _update_channel_availability, _update_channel_pricing or
\* _poll_single_channel.  The write tasks close the SyncLog row they opened;
\* the poll keeps no SyncLog.  "except Exception" is the branch of every
\* exception: record_failure, the row closed as failure, error_count + 1 in
\* the availability task, and task.retry
write_attempt(outcome) ==
    /\ write_task.pc = "queued"
    /\ connection.error_count < MaxErrors
    /\ LET logs(status, exception) ==
              IF write_task.kind = "poll_single_channel" THEN sync_logs
              ELSE log_sync_complete(status, exception)
           ran == [write_task EXCEPT !.attempts = @ + 1, !.met = outcome]
       IN IF outcome = "circuit_open"
          THEN /\ sync_logs' = logs("skipped", "none")
               /\ write_task' = [ran EXCEPT !.pc = "done", !.result = "skipped"]
               /\ UNCHANGED connection
          ELSE IF outcome = "ok"
          THEN /\ sync_logs' = logs("success", "none")
               /\ write_task' = [ran EXCEPT !.pc = "done", !.result = "success",
                                            !.adapter_calls = @ + 1]
               /\ UNCHANGED connection
          ELSE /\ sync_logs' = logs("failure", raised_exception(outcome))
               /\ connection' =
                    IF write_task.kind = "update_channel_availability"
                    THEN [connection EXCEPT !.error_count = @ + 1]
                    ELSE connection
               /\ \E jitter \in Jitters(write_task.retries) :
                     write_task' =
                        task_retry([ran EXCEPT !.failures_recorded = @ + 1,
                                               !.adapter_calls =
                                                  IF outcome = "rate_limited" THEN @
                                                  ELSE @ + 1],
                                   jitter)
    /\ UNCHANGED <<refresh, refresh_failures>>
    /\ UNCHANGED tkOthers

\* refresh_expiring_tokens selects the connection: active, token expiring
refresh_expiring_tokens ==
    /\ refresh.pc = "idle"
    /\ refresh.runs < MaxRefreshRuns
    /\ connection.status = "active"
    /\ refresh' = [pc |-> "refreshing", error_count |-> connection.error_count,
                   runs |-> refresh.runs + 1]
    /\ UNCHANGED <<connection, write_task, sync_logs, refresh_failures>>
    /\ UNCHANGED tkOthers

\* refresh_connection_token returns: the new tokens are saved
refresh_connection_token ==
    /\ refresh.pc = "refreshing"
    /\ refresh' = [refresh EXCEPT !.pc = "idle"]
    /\ refresh_failures' = 0
    /\ UNCHANGED <<connection, write_task, sync_logs>>
    /\ UNCHANGED tkOthers

\* refresh_connection_token raises: "if conn.error_count >= 3" on the row
\* the run selected
refresh_connection_token_raises ==
    /\ refresh.pc = "refreshing"
    /\ refresh' = [refresh EXCEPT !.pc = "idle"]
    /\ refresh_failures' = refresh_failures + 1
    /\ connection' = IF refresh.error_count >= 3
                     THEN [connection EXCEPT !.status = "expired"]
                     ELSE connection
    /\ UNCHANGED <<write_task, sync_logs>>
    /\ UNCHANGED tkOthers


\* the component at rest, for the specifications of the other components
TaskParked ==
    /\ connection = [status |-> "active", error_count |-> 0]
    /\ write_task = [kind |-> "update_channel_availability", pc |-> "queued",
                     retries |-> 0, adapter_calls |-> 0, result |-> "none",
                     attempts |-> 0, countdown |-> 0, failures_recorded |-> 0,
                     met |-> "none"]
    /\ sync_logs = << >>
    /\ refresh = [pc |-> "idle", error_count |-> 0, runs |-> 0]
    /\ refresh_failures = 0

(***************************************************************************)
(* GUEST UPSERT  (backend-api-routes.py and sync-engine.py,                *)
(* create_or_get_guest)                                                    *)
(* guests is the guests table of one tenant, a row's id being its          *)
(* position.  A caller is create_booking's step 5, whose row is written    *)
(* by the request's commit, or an import task, which commits at once.      *)
(***************************************************************************)
GuestCallers == 1..NumGuestCalls
Emails == {"ann@example.org", "bob@example.org"}
GuestSources == {"direct", "airbnb"}

GuestIdle == [pc |-> "idle", source |-> "none", email |-> "", existing |-> 0,
              resp |-> "none"]

GuestInit ==
    /\ guests = << >>
    /\ guest_call = [c \in GuestCallers |-> GuestIdle]

\* the rows the select by (tenant_id, email) returns
guests_by_email(email) == { g \in 1..Len(guests) : guests[g].email = email }

\* select ... where tenant_id and email: the direct flow reads it with
\* scalar_one_or_none, which raises on more than one row; the import reads
\* the first row and returns its id when there is one
create_or_get_guest(c, source, email) ==
    /\ guest_call[c].pc = "idle"
    /\ \A q \in 1..(c - 1) : guest_call[q].pc # "idle"
    /\ LET rows == guests_by_email(email)
           call == [GuestIdle EXCEPT !.source = source, !.email = email]
       IN guest_call' = [guest_call EXCEPT ![c] =
            IF source = "direct" /\ Cardinality(rows) > 1
            THEN [call EXCEPT !.pc = "done", !.resp = "500"]
            ELSE IF rows = {}
            THEN [call EXCEPT !.pc = "insert"]
            ELSE IF source = "direct"
            THEN [call EXCEPT !.pc = "update", !.existing = CHOOSE g \in rows : TRUE]
            ELSE [call EXCEPT !.pc = "done", !.resp = "existing"]]
    /\ UNCHANGED guests
    /\ UNCHANGED gOthers

\* the insert and its commit: no constraint of the table rejects the row
guest_insert(c) ==
    /\ guest_call[c].pc = "insert"
    /\ guests' = Append(guests, [email |-> guest_call[c].email,
                                 source |-> guest_call[c].source,
                                 total_bookings |-> 1])
    /\ guest_call' = [guest_call EXCEPT ![c].pc = "done", ![c].resp = "created"]
    /\ UNCHANGED gOthers

\* the direct flow's update of the row it found, written by its commit
guest_update(c) ==
    /\ guest_call[c].pc = "update"
    /\ guests' = [guests EXCEPT ![guest_call[c].existing].total_bookings = @ + 1]
    /\ guest_call' = [guest_call EXCEPT ![c].pc = "done", ![c].resp = "existing"]
    /\ UNCHANGED gOthers

\* create_booking fails after step 5: the rollback drops the guest write
guest_rollback(c) ==
    /\ guest_call[c].pc \in {"insert", "update"}
    /\ guest_call[c].source = "direct"
    /\ guest_call' = [guest_call EXCEPT ![c].pc = "done", ![c].resp = "rolled_back"]
    /\ UNCHANGED guests
    /\ UNCHANGED gOthers


(***************************************************************************)
(* Specifications                                                          *)
(***************************************************************************)
InitLimiter == RlInit /\ CbInit /\ DbInit /\ ResInit /\ IngInit /\ EvInit /\ SyncInit /\ StrInit /\ TaskParked /\ GuestInit /\ RecInit

NextLimiter ==
    \/ \E w \in RlCallers : acquire_begin(w)
    \/ \E w \in RlCallers : acquire_pipe(w)
    \/ \E w \in RlCallers : acquire_zadd(w)
    \/ \E w \in RlCallers : acquire_expire(w)
    \/ rl_tick

SpecLimiter == InitLimiter /\ [][NextLimiter]_vars

\* the adaptive limiter: acquire is inherited, 429 responses are recorded
NextAdaptive ==
    \/ \E w \in RlCallers : acquire_begin(w)
    \/ \E w \in RlCallers : acquire_pipe(w)
    \/ \E w \in RlCallers : acquire_zadd(w)
    \/ \E w \in RlCallers : acquire_expire(w)
    \/ \E retry_after \in 0..MaxRetryAfter : record_rate_limit(retry_after)
    \/ rl_tick

SpecAdaptive == InitLimiter /\ [][NextAdaptive]_vars

InitBreaker == RlParked /\ CbInit /\ DbInit /\ ResInit /\ IngInit /\ EvInit /\ SyncInit /\ StrInit /\ TaskParked /\ GuestInit /\ RecInit

NextBreaker ==
    \/ \E w \in CbWorkers : cb_begin(w)
    \/ \E w \in CbWorkers : record_failure_excluded(w)
    \/ \E w \in CbWorkers : get_state_read(w)
    \/ \E w \in CbWorkers : get_state_opened_at(w)
    \/ \E w \in CbWorkers : transition_half_open_delete(w)
    \/ \E w \in CbWorkers : transition_half_open_set(w)
    \/ \E w \in CbWorkers : transition_closed_delete(w)
    \/ \E w \in CbWorkers : transition_open_set(w)
    \/ \E w \in CbWorkers : transition_open_delete(w)
    \/ \E w \in CbWorkers : _set_state(w)
    \/ \E w \in CbWorkers : can_execute_read(w)
    \/ \E w \in CbWorkers : can_execute_incr(w)
    \/ \E w \in CbWorkers : record_success_incr(w)
    \/ \E w \in CbWorkers : record_failure_pipe(w)
    \/ cb_tick

SpecBreaker == InitBreaker /\ [][NextBreaker]_vars

\* The breaker as its callers use it (sync-engine.py 548-647): a caller asks
\* can_execute; the one that was admitted runs its request and reports with
\* record_success or record_failure, reports an excluded error, or ends
\* without a report (task_time_limit kills the worker, sync-engine.py 79).
admitted(w) ==
    /\ cb_worker[w].pc = "idle"
    /\ cb_worker[w].op = "can_execute"
    /\ cb_worker[w].ret = "true"

probe_call(w) ==
    /\ cb_begin(w)
    /\ cb_worker'[w].op = "can_execute"

probe_report(w) ==
    /\ admitted(w)
    /\ cb_begin(w)
    /\ cb_worker'[w].op # "can_execute"

probe_report_excluded(w) ==
    /\ admitted(w)
    /\ record_failure_excluded(w)

\* the Redis commands of a call that has begun
cb_step(w) ==
    \/ get_state_read(w)
    \/ get_state_opened_at(w)
    \/ transition_half_open_delete(w)
    \/ transition_half_open_set(w)
    \/ transition_closed_delete(w)
    \/ transition_open_set(w)
    \/ transition_open_delete(w)
    \/ _set_state(w)
    \/ can_execute_read(w)
    \/ can_execute_incr(w)
    \/ record_success_incr(w)
    \/ record_failure_pipe(w)

NextProbe ==
    \/ \E w \in CbWorkers : probe_call(w)
    \/ \E w \in CbWorkers : probe_report(w)
    \/ \E w \in CbWorkers : probe_report_excluded(w)
    \/ \E w \in CbWorkers : cb_step(w)
    \/ cb_tick

\* a call that has begun runs to its end, and callers keep asking
\* can_execute; nothing makes an admitted caller report
probe_progress ==
    \A w \in CbWorkers : WF_vars(cb_step(w)) /\ WF_vars(probe_call(w))

SpecProbe == InitBreaker /\ [][NextProbe]_vars /\ probe_progress

InitReservation == RlParked /\ CbInit /\ DbInit /\ ResInit /\ IngInit /\ EvInit /\ SyncInit /\ StrInit /\ TaskParked /\ GuestInit /\ RecInit

NextReservation ==
    \/ \E r \in Requests, s \in Stays : create_booking(r, s[1], s[2])
    \/ \E r \in Requests : lock_acquire(r)
    \/ \E r \in Requests : lock_acquire_timeout(r)
    \/ \E s \in Stays : lock_expire(s)
    \/ \E r \in Requests : create_check_availability(r)
    \/ \E r \in Requests : create_payment_intent(r)
    \/ \E r \in Requests : create_payment_intent_error(r)
    \/ \E r \in Requests : create_commit(r)
    \/ \E r \in Requests : lock_release(r)
    \/ \E i \in 1..MaxCalls : payment_succeeds(i)
    \/ \E w \in Ops, b \in 1..MaxCalls, i \in 0..MaxCalls : confirm_booking(w, b, i)
    \/ \E w \in Ops : confirm_commit(w)
    \/ \E w \in Ops, b \in 1..MaxCalls, refund \in BOOLEAN : cancel_booking(w, b, refund)
    \/ \E w \in Ops : cancel_commit(w)
    \/ \E w \in Ops, b \in 1..MaxCalls : cancel_expired_booking_task(w, b)
    \/ \E w \in Ops : expire_commit(w)
    \/ \E w \in Ops, i \in 1..MaxCalls :
          \E type \in {"payment_intent.succeeded", "payment_intent.payment_failed"} :
             stripe_webhook(w, type, i)
    \/ \E w \in Ops : stripe_webhook_commit(w)
    \/ \E t \in ImportTasks, body \in ImportedBodies :
          import_channel_booking(t, generate_idempotency_key("airbnb", body),
                                 body.reservation)
    \/ \E t \in ImportTasks : import_check_idempotency(t)
    \/ \E t \in ImportTasks : import_insert(t)
    \/ \E t \in ImportTasks : import_mark(t)
    \/ \E t \in ImportTasks : import_fanout(t)

SpecReservation == InitReservation /\ [][NextReservation]_vars

InitIngress == RlParked /\ CbInit /\ DbInit /\ ResInit /\ IngInit /\ EvInit /\ SyncInit /\ StrInit /\ TaskParked /\ GuestInit /\ RecInit

NextIngress ==
    \/ \E d \in Deliveries, body \in AirbnbBodies : airbnb_webhook(d, body)
    \/ \E d \in Deliveries : webhook_check(d)
    \/ \E d \in Deliveries : webhook_mark(d)
    \/ \E d \in Deliveries, t \in ImportTasks : webhook_import_delay(d, t)
    \/ \E t \in ImportTasks : import_check_idempotency(t)
    \/ \E t \in ImportTasks : import_insert(t)
    \/ \E t \in ImportTasks : import_mark(t)
    \/ \E t \in ImportTasks : import_fanout(t)
    \/ \E b \in 1..MaxCalls, x \in Channels : sync_to_other_channels(b, x)

SpecIngress == InitIngress /\ [][NextIngress]_vars

\* The import task under task_acks_late and task_reject_on_worker_lost
\* (sync-engine.py 72-84): a worker lost after the insert committed leaves
\* the message unacknowledged and the broker delivers it again; an exception
\* of redis.setex or log_sync_complete reaches "except Exception" and
\* task.retry.  Either way the task body runs again from its first line.
import_redelivered(t) ==
    /\ imp_task[t].pc \in {"mark", "fanout"}
    /\ imp_task' = [imp_task EXCEPT ![t].pc = "idem", ![t].booking = 0]
    /\ UNCHANGED ingOthers
    /\ UNCHANGED <<dbVars, wh_seen, wh_call, imported, fanout>>

\* the steps of an import task that is running
import_step(t) ==
    \/ import_check_idempotency(t)
    \/ import_insert(t)
    \/ import_mark(t)
    \/ import_fanout(t)

NextRedelivery ==
    \/ \E d \in Deliveries, body \in AirbnbBodies : airbnb_webhook(d, body)
    \/ \E d \in Deliveries : webhook_check(d)
    \/ \E d \in Deliveries : webhook_mark(d)
    \/ \E d \in Deliveries, t \in ImportTasks : webhook_import_delay(d, t)
    \/ \E t \in ImportTasks : import_step(t)
    \/ \E t \in ImportTasks : import_redelivered(t)
    \/ \E b \in 1..MaxCalls, x \in Channels : sync_to_other_channels(b, x)

\* a delivered import task runs on until it returns or its worker is lost
import_progress == \A t \in ImportTasks : WF_vars(import_step(t))

SpecRedelivery == InitIngress /\ [][NextRedelivery]_vars /\ import_progress

\* every request has arrived, all for one stay; the processor answers
RaceInit ==
    /\ res_lock = [s \in Stays |-> 0]
    /\ \E s \in Stays :
          res_req = [r \in Requests |->
                       [ReqIdle EXCEPT !.pc = "lock", !.check_in = s[1],
                                       !.check_out = s[2]]]
    /\ res_op = [w \in Ops |-> OpIdle]
    /\ intents = << >>
    /\ stripe_seen = {}

InitRace == RlParked /\ CbInit /\ DbInit /\ RaceInit /\ IngInit /\ EvInit /\ SyncInit /\ StrInit /\ TaskParked /\ GuestInit /\ RecInit

NextRace ==
    \/ \E r \in Requests : lock_acquire(r)
    \/ \E r \in Requests : lock_acquire_timeout(r)
    \/ \E s \in Stays : lock_expire(s)
    \/ \E r \in Requests : create_check_availability(r)
    \/ \E r \in Requests : create_payment_intent(r)
    \/ \E r \in Requests : create_commit(r)
    \/ \E r \in Requests : lock_release(r)

SpecRace == InitRace /\ [][NextRace]_vars

\* a guest holds one reservation made earlier, of the first night: the
\* booking row, its tentative cell and its PaymentIntent; no call is in flight
BookedInit ==
    /\ \E s \in {<<1, 2>>} :
          /\ bookings = << [check_in |-> s[1], check_out |-> s[2],
                            status |-> "reserved", payment_status |-> "pending",
                            source |-> "direct", channel_booking_id |-> "",
                            booking_reference |-> 1,
                            stripe_payment_intent_id |-> 1] >>
          /\ calendar = block_calendar_dates([d \in Dates |-> NoRow], s[1], s[2], 1)
    /\ payment_transactions = EmptyBag
    /\ intents = << "requires_payment_method" >>
    /\ res_lock = [s \in Stays |-> 0]
    /\ res_req = [r \in Requests |-> ReqIdle]
    /\ res_op = [w \in Ops |-> OpIdle]
    /\ stripe_seen = {}

InitBooked == RlParked /\ CbInit /\ BookedInit /\ IngInit /\ EvInit /\ SyncInit /\ StrInit /\ TaskParked /\ GuestInit /\ RecInit

NextBooked ==
    \/ \E i \in 1..MaxCalls : payment_succeeds(i)
    \/ \E w \in Ops, b \in 1..MaxCalls, i \in 0..MaxCalls : confirm_booking(w, b, i)
    \/ \E w \in Ops : confirm_commit(w)
    \/ \E w \in Ops, b \in 1..MaxCalls, refund \in BOOLEAN : cancel_booking(w, b, refund)
    \/ \E w \in Ops : cancel_commit(w)
    \/ \E w \in Ops, b \in 1..MaxCalls : cancel_expired_booking_task(w, b)
    \/ \E w \in Ops : expire_commit(w)
    \/ \E w \in Ops, i \in 1..MaxCalls :
          \E type \in {"payment_intent.succeeded", "payment_intent.payment_failed"} :
             stripe_webhook(w, type, i)
    \/ \E w \in Ops : stripe_webhook_commit(w)

SpecBooked == InitBooked /\ [][NextBooked]_vars

InitEvents == RlParked /\ CbInit /\ DbInit /\ ResInit /\ IngInit /\ EvInit /\ SyncInit /\ StrInit /\ TaskParked /\ GuestInit /\ RecInit

NextEvents ==
    \/ \E event \in PmsEvents : xadd(event)
    \/ process_pms_event_stream
    \/ \E message_id \in 1..NumMessages : route_event(message_id)
    \/ \E message_id \in 1..NumMessages : route_event_raises(message_id)
    \/ \E event \in PmsEvents : handle_booking_confirmed_event(event)
    \/ \E event \in PmsEvents : handle_booking_cancelled_event(event)

SpecEvents == InitEvents /\ [][NextEvents]_vars

\* calendar rows: no row, a date the owner blocked, a date set available
CalendarRows ==
    { NoRow,
      [available |-> FALSE, availability_status |-> "blocked", booking_id |-> 0],
      [available |-> TRUE, availability_status |-> "available", booking_id |-> 0] }

\* any local calendar and any remote availability map
DriftInit ==
    /\ bookings = << >>
    /\ calendar \in [Dates -> CalendarRows]
    /\ payment_transactions = EmptyBag
    /\ \E reported \in SUBSET Dates : remote \in [reported -> BOOLEAN]
    /\ reconcile_ran = FALSE

InitReconcile ==
    RlParked /\ CbInit /\ DriftInit /\ ResInit /\ IngInit /\ EvInit /\ SyncInit /\ StrInit /\ TaskParked /\ GuestInit

UpdateTasks ==
    [connection : {reconciled_connection}, check_in : Dates,
     check_out : 2..(MaxDate + 1), available : BOOLEAN]

NextReconcile ==
    \/ reconcile_single_connection
    \/ \E task \in UpdateTasks : update_channel_availability(task)
    \/ \E task \in UpdateTasks : update_channel_availability_skipped(task)
    \/ \E task \in UpdateTasks : update_channel_availability_failed(task)

SpecReconcile == InitReconcile /\ [][NextReconcile]_vars

InitTask ==
    RlParked /\ CbInit /\ DbInit /\ ResInit /\ IngInit /\ EvInit /\ SyncInit /\ StrInit
       /\ RecInit /\ TaskInit /\ GuestInit

NextTask ==
    \/ \E outcome \in AttemptOutcomes : write_attempt(outcome)
    \/ refresh_expiring_tokens
    \/ refresh_connection_token
    \/ refresh_connection_token_raises

SpecTask == InitTask /\ [][NextTask]_vars

\* a worker delivers every queued message of the task (task_acks_late: the
\* message stays with the broker until an attempt has completed)
task_delivery == WF_vars(\E outcome \in AttemptOutcomes : write_attempt(outcome))

SpecTaskFair == InitTask /\ [][NextTask]_vars /\ task_delivery

InitGuests ==
    RlParked /\ CbInit /\ DbInit /\ ResInit /\ IngInit /\ EvInit /\ SyncInit /\ StrInit
       /\ RecInit /\ TaskParked /\ GuestInit

NextGuests ==
    \/ \E c \in GuestCallers, source \in GuestSources, email \in Emails :
          create_or_get_guest(c, source, email)
    \/ \E c \in GuestCallers : guest_insert(c)
    \/ \E c \in GuestCallers : guest_update(c)
    \/ \E c \in GuestCallers : guest_rollback(c)

SpecGuests == InitGuests /\ [][NextGuests]_vars

(***************************************************************************)
(* CLAIMS                                                                  *)
(***************************************************************************)

\* the state a reader of the state key sees: a missing key reads as CLOSED
StoredState(s) == IF s = "none" THEN "closed" ELSE s

LegalEdges == { <<"closed", "open">>, <<"open", "half_open">>,
                <<"half_open", "closed">>, <<"half_open", "open">> }

\* C6: every change of the stored circuit state, under any interleaving of
\* get_state/can_execute, record_success and record_failure by concurrent
\* workers, is one of CLOSED->OPEN, OPEN->HALF_OPEN, HALF_OPEN->CLOSED,
\* HALF_OPEN->OPEN.
C6_OnlyLegalEdges ==
    [][StoredState(cb_state') # StoredState(cb_state)
         => <<StoredState(cb_state), StoredState(cb_state')>> \in LegalEdges]_vars

\* total weight of the admitted calls whose timestamp lies in (t - W, t]
RECURSIVE AdmittedWeight(_, _)
AdmittedWeight(t, k) ==
    IF k >= rl_config.window_seconds \/ t - k < 0 THEN 0
    ELSE rl_admitted[t - k] + AdmittedWeight(t, k + 1)

\* C7: for every interleaving of concurrent acquire calls on one key, the
\* total weight of the admitted calls whose timestamps lie within any window
\* of W seconds never exceeds the effective limit.
C7_WindowWeightWithinLimit ==
    \A t \in 0..MaxClock : AdmittedWeight(t, 0) <= effective_limit(rl_config)

\* C8: the step in which acquire returns false appends no member to the
\* key's sorted set, so the in-window count is not larger after it.
C8_DeniedAppendsNothing ==
    [][\A w \in RlCallers :
         (rl_call[w].pc = "pipe" /\ rl_call'[w].pc = "idle")
           => /\ rl_call'[w].ret = "denied"
              /\ rl_key' \subseteq rl_key]_vars

C8_Witness ==
    \E w \in RlCallers :
        /\ rl_call[w].ret = "denied"
        /\ rl_call[w].pc = "idle"
        /\ rl_key # {}


\* a booking that holds its dates
Active(b) == bookings[b].status \in {"reserved", "confirmed"}

\* C1: no two bookings with status reserved or confirmed have overlapping
\* half-open date ranges [check_in, check_out)
C1_NoOverlappingActiveBookings ==
    \A a \in BookingIds, b \in BookingIds :
        (a # b /\ Active(a) /\ Active(b))
            => ~(bookings[a].check_in < bookings[b].check_out
                 /\ bookings[b].check_in < bookings[a].check_out)

\* C2: every date of a reserved or confirmed booking has a calendar cell
\* with available = false and booking_id equal to the booking's id
C2_ActiveBookingHoldsItsCells ==
    \A b \in BookingIds :
        Active(b) =>
            \A d \in date_range(bookings[b].check_in, bookings[b].check_out) :
                /\ calendar[d].availability_status # "none"
                /\ calendar[d].available = FALSE
                /\ calendar[d].booking_id = b

\* C3: once the concurrent create_booking calls for one stay have all
\* answered, exactly one answered success and the others 409, exactly one
\* booking exists and every cell of the stay is tentative and references it
C3_ExactlyOneRequestWins ==
    (\A r \in Requests : res_req[r].pc = "done") =>
        /\ Cardinality({ r \in Requests : res_req[r].resp = "reserved" }) = 1
        /\ \A r \in Requests : res_req[r].resp \in {"reserved", "409"}
        /\ Len(bookings) = 1
        /\ \A d \in date_range(bookings[1].check_in, bookings[1].check_out) :
              calendar[d] = [available |-> FALSE, availability_status |-> "tentative",
                             booking_id |-> 1]

\* C5: no calendar cell has booking_id equal to the id of a cancelled
\* booking, and the step that cancels or expires a booking leaves every
\* cell that referenced it available with booking_id null
C5_CancelledBookingHoldsNoCell ==
    /\ [](\A b \in BookingIds :
            bookings[b].status = "cancelled" =>
                \A d \in Dates : calendar[d].booking_id # b)
    /\ [][\A b \in BookingIds :
            (bookings[b].status # "cancelled" /\ bookings'[b].status = "cancelled") =>
                \A d \in Dates :
                    calendar[d].booking_id = b =>
                        /\ calendar'[d].available
                        /\ calendar'[d].booking_id = 0]_vars

\* a direct booking has been cancelled or has expired and a cell it held is
\* released
C5_Witness ==
    \E b \in BookingIds :
        /\ bookings[b].status = "cancelled"
        /\ bookings[b].source = "direct"
        /\ \E d \in date_range(bookings[b].check_in, bookings[b].check_out) :
              calendar[d] = [available |-> TRUE, availability_status |-> "available",
                             booking_id |-> 0]


\* the import tasks received for one channel booking
TasksOf(code) ==
    { t \in ImportTasks : imp_task[t].pc # "idle"
                          /\ imp_task[t].data.confirmation_code = code }

\* the tasks that carry one of two idempotency keys
TasksWithKey(k1, k2) ==
    { t \in ImportTasks : imp_task[t].pc # "idle" /\ imp_task[t].key \in {k1, k2} }

\* C4: at most one booking exists per (source, channel_booking_id); when
\* two import tasks for one channel booking with different idempotency keys
\* (keys no other task carries) have run, one returned success and the
\* other duplicate; the step that
\* returns duplicate inserts no booking and enqueues no fan-out, and only
\* inserted bookings are fanned out
C4_OneBookingPerChannelBooking ==
    /\ [](\A a \in BookingIds, b \in BookingIds :
            (a # b /\ bookings[a].channel_booking_id # "")
                => ~(bookings[a].source = bookings[b].source
                     /\ bookings[a].channel_booking_id = bookings[b].channel_booking_id))
    /\ [](\A t \in ImportTasks, u \in ImportTasks :
            (/\ TasksOf(imp_task[t].data.confirmation_code) = {t, u}
             /\ imp_task[t].key # imp_task[u].key
             /\ TasksWithKey(imp_task[t].key, imp_task[u].key) = {t, u}
             /\ imp_task[t].pc = "done" /\ imp_task[u].pc = "done")
                => /\ {imp_task[t].resp, imp_task[u].resp} = {"success", "duplicate"}
                   /\ fanout \cap {imp_task[t].booking, imp_task[u].booking, 0}
                        = {imp_task[t].booking, imp_task[u].booking} \ {0})
    /\ [](fanout \subseteq BookingIds)
    /\ [][\A t \in ImportTasks :
            (imp_task[t].resp # "duplicate" /\ imp_task'[t].resp = "duplicate")
                => /\ bookings' = bookings
                   /\ fanout' = fanout]_vars

\* two tasks with different keys have run for one channel booking and one
\* of them ended as duplicate
C4_Witness ==
    \E t \in ImportTasks, u \in ImportTasks :
        /\ imp_task[t].data.confirmation_code = imp_task[u].data.confirmation_code
        /\ imp_task[t].key # imp_task[u].key
        /\ imp_task[t].resp = "success"
        /\ imp_task[u].resp = "duplicate"

\* C9: the check of a delivery whose idempotency key is already marked
\* ends the delivery with already_processed, adds no background task and
\* changes no idempotency key, import task, fan-out, booking or cell
C9_SeenKeyOnlyResponds ==
    [][\A d \in Deliveries :
          (/\ wh_call[d].pc = "check"
           /\ generate_idempotency_key("airbnb", wh_call[d].body) \in wh_seen
           /\ wh_call'[d] # wh_call[d])
              => /\ wh_call'[d] = [wh_call[d] EXCEPT !.pc = "done",
                                                    !.resp = "already_processed"]
                 /\ wh_call'[d].task = "none"
                 /\ UNCHANGED <<wh_seen, imported, imp_task, fanout, bookings, calendar>>]_vars

\* a delivery has been answered already_processed
C9_Witness ==
    \E d \in Deliveries :
        /\ wh_call[d].pc = "done"
        /\ wh_call[d].resp = "already_processed"
        /\ generate_idempotency_key("airbnb", wh_call[d].body) \in wh_seen

\* ingress and import have come to rest
Settled ==
    /\ \A d \in Deliveries : wh_call[d].pc \in {"idle", "done"}
    /\ \A t \in ImportTasks : imp_task[t].pc \in {"idle", "done"}

\* C10: when one reservation.created body of a connected listing has been
\* delivered twice, one delivery is answered accepted and the other
\* already_processed, and exactly one booking with its channel booking id
\* exists afterwards
C10_SecondDeliveryIsDeduplicated ==
    \A d \in Deliveries, e \in Deliveries :
        (/\ Settled
         /\ d # e
         /\ wh_call[d].pc = "done" /\ wh_call[e].pc = "done"
         /\ wh_call[d].body = wh_call[e].body
         /\ wh_call[d].body \in ImportedBodies)
            => /\ {wh_call[d].resp, wh_call[e].resp} = {"accepted", "already_processed"}
               /\ Cardinality({ b \in BookingIds :
                     /\ bookings[b].source = "airbnb"
                     /\ bookings[b].channel_booking_id
                          = wh_call[d].body.reservation.confirmation_code }) = 1

\* the calls of confirm_booking(b, i) that have returned success
ConfirmedCalls(b, i) ==
    { v \in Ops : /\ res_op[v].pc = "done" /\ res_op[v].kind = "confirm"
                  /\ res_op[v].booking = b /\ res_op[v].intent = i
                  /\ res_op[v].resp = "confirmed" }

\* C11: a confirm_booking(b, pi) called after a confirm_booking(b, pi) has
\* returned success returns success at once and changes no booking, calendar
\* cell or payment transaction and publishes no event.
C11_ConfirmIsIdempotent ==
    [][\A w \in Ops :
         (/\ res_op[w].pc = "idle" /\ res_op'[w].kind = "confirm"
          /\ ConfirmedCalls(res_op'[w].booking, res_op'[w].intent) # {})
            => /\ res_op'[w].pc = "done" /\ res_op'[w].resp = "confirmed"
               /\ UNCHANGED <<dbVars, published>>]_vars

\* the runs of import_channel_booking(x, k) that have returned success
ImportedRuns(x, k) ==
    { t \in ImportTasks : /\ imp_task[t].pc = "done" /\ imp_task[t].resp = "success"
                          /\ imp_task[t].data = x /\ imp_task[t].key = k }

\* C12: a run of import_channel_booking(x, k) that starts after a run of
\* import_channel_booking(x, k) has returned success returns already_imported
\* at its idempotency check, writing no booking and queueing no fan-out; the
\* store then holds one booking of x, the one the first run handed to
\* sync_to_other_channels.
C12_ImportTwiceIsImportOnce ==
    /\ [][\A u \in ImportTasks :
            (/\ imp_task[u].pc = "idem" /\ imp_task'[u].pc # "idem"
             /\ ImportedRuns(imp_task[u].data, imp_task[u].key) # {})
               => /\ imp_task'[u].pc = "done"
                  /\ imp_task'[u].resp = "already_imported"
                  /\ UNCHANGED <<dbVars, imported, fanout>>]_vars
    /\ [](\A u \in ImportTasks :
            (imp_task[u].pc = "done" /\ imp_task[u].resp = "already_imported")
               => \A t \in ImportedRuns(imp_task[u].data, imp_task[u].key) :
                     /\ { b \in BookingIds :
                            /\ bookings[b].source = "airbnb"
                            /\ bookings[b].channel_booking_id
                                  = imp_task[u].data.confirmation_code }
                          = {imp_task[t].booking}
                     /\ imp_task[t].booking \in fanout
                     /\ imp_task[u].booking = 0)

C12_Witness ==
    \E u \in ImportTasks :
        /\ imp_task[u].pc = "done" /\ imp_task[u].resp = "already_imported"
        /\ ImportedRuns(imp_task[u].data, imp_task[u].key) # {}

\* the bookings whose cancel_expired_booking_task has run to its end
ExpiryRan == { res_op[w].booking : w \in { v \in Ops : /\ res_op[v].pc = "done"
                                                        /\ res_op[v].kind = "expire" } }

\* C13: a booking whose expiry task has run is not reserved any more,
\* whatever payment events arrived before the task, and if it was not
\* confirmed none of its dates is held by it.
C13_ExpiredBookingIsNotReserved ==
    \A b \in ExpiryRan :
        /\ bookings[b].status # "reserved"
        /\ bookings[b].status = "cancelled"
              => \A d \in date_range(bookings[b].check_in, bookings[b].check_out) :
                    calendar[d].booking_id # b

\* the booking is what cancel_expired_booking_task cancels
StillPending(b) ==
    bookings[b].status = "reserved" /\ bookings[b].payment_status = "pending"

\* C14: the expiry task, called for a booking that is not reserved with
\* payment pending, returns and changes nothing; its write on a booking
\* that is still reserved with payment pending sets status cancelled and
\* payment status expired, makes available every cell of the stay that
\* holds the booking, leaves the other cells alone and has the processor
\* cancel the intent if it can still be cancelled.
C14_ExpiryCancelsPendingOnly ==
    [][\A w \in Ops :
         /\ (/\ res_op[w].pc = "idle" /\ res_op'[w].kind = "expire"
             /\ ~StillPending(res_op'[w].booking))
               => /\ res_op'[w].pc = "done"
                  /\ UNCHANGED <<dbVars, intents, published>>
         /\ (/\ res_op[w].pc = "write" /\ res_op[w].kind = "expire"
             /\ res_op'[w].pc = "done" /\ StillPending(res_op[w].booking))
               => LET b == res_op[w].booking
                      stay == date_range(bookings[b].check_in, bookings[b].check_out)
                  IN /\ bookings'[b].status = "cancelled"
                     /\ bookings'[b].payment_status = "expired"
                     /\ \A d \in Dates :
                           calendar'[d] =
                             IF d \in stay /\ calendar[d].booking_id = b
                             THEN [available |-> TRUE,
                                   availability_status |-> "available",
                                   booking_id |-> 0]
                             ELSE calendar[d]
                     /\ intents'[bookings[b].stripe_payment_intent_id]
                           # "requires_payment_method"]_vars

C14_Witness ==
    \E w \in Ops :
        /\ res_op[w].pc = "done" /\ res_op[w].kind = "expire"
        /\ res_op[w].resp = "expired"
        /\ bookings[res_op[w].booking].payment_status = "expired"
        /\ intents[bookings[res_op[w].booking].stripe_payment_intent_id] = "canceled"

\* the update_channel_availability calls queued for a connection, a stay
\* and a value
QueuedUpdates(conn, check_in, check_out, available) ==
    CopiesIn([connection |-> conn, check_in |-> check_in,
              check_out |-> check_out, available |-> available],
             availability_tasks)

\* "active connection", as the queries of sync-engine.py select it
ActiveConnection(conn) == conn.sync_enabled /\ conn.status = "active"

\* the connections an availability change that came from source is written to
OutboundTargets(source) ==
    { conn \in channel_connections :
        /\ ActiveConnection(conn)
        /\ conn.sync_availability
        /\ conn.sync_direction \in {"bidirectional", "outbound_only"}
        /\ conn.channel_type # source }

\* C15: the fan-out of a booking imported from a channel queues exactly one
\* blocking update of the booking's dates for every active connection of
\* another channel with sync_availability set and direction bidirectional
\* or outbound_only, and none for any other connection, in particular none
\* for a connection on the booking's own channel.
C15_FanOutExcludesSource ==
    [][\A b \in fanout :
         (b \notin fanout_ran /\ b \in fanout_ran')
           => \A conn \in channel_connections :
                 QueuedUpdates(conn, bookings[b].check_in, bookings[b].check_out,
                               FALSE)'
                   = QueuedUpdates(conn, bookings[b].check_in,
                                   bookings[b].check_out, FALSE)
                     + (IF conn \in OutboundTargets(bookings[b].source)
                        THEN 1 ELSE 0)]_vars

C15_Witness ==
    \E b \in fanout_ran :
        /\ bookings[b].source = "airbnb"
        /\ \E conn \in channel_connections :
              QueuedUpdates(conn, bookings[b].check_in, bookings[b].check_out, FALSE) = 1

\* C16: a run of handle_booking_confirmed_event or of
\* handle_booking_cancelled_event queues one update of the event's dates
\* (blocking for confirmed, unblocking for cancelled) for every active
\* outbound connection with sync_availability set whose channel is not the
\* event's source, and none for any other connection.
C16_EventFanOutExcludesSource ==
    [][\A event \in PmsEvents :
         CopiesIn(event, handler_queue') < CopiesIn(event, handler_queue)
           => LET available == event.event_type = "booking.cancelled"
              IN \A conn \in channel_connections :
                    QueuedUpdates(conn, event.check_in, event.check_out, available)'
                      = QueuedUpdates(conn, event.check_in, event.check_out,
                                      available)
                        + (IF conn \in OutboundTargets(event.source)
                           THEN 1 ELSE 0)]_vars

\* the messages the running task has read and not yet handled
InBatch == { batch[n] : n \in 1..Len(batch) }

\* C18: a message leaves the pending-entries list only in the step in which
\* route_event dispatched it; and a message that is still pending after the
\* run that read it has passed it by (its dispatch raised) is one a later
\* XREADGROUP of process_pms_event_stream delivers again.
C18_UnackedIsRedelivered ==
    /\ [][\A m \in pel :
            m \notin pel'
              => /\ m = Head(batch) /\ batch' = Tail(batch)
                 /\ stream[m].event_type \in handlers
                      => CopiesIn(stream[m], handler_queue')
                           = CopiesIn(stream[m], handler_queue) + 1]_vars
    /\ [](\A m \in pel \ InBatch : deliverable(m))

\* C17: once reconcile_single_connection has run and every correction it
\* queued has ended, the channel's value of every date it reports equals
\* the local value.
C17_ReconciliationConverges ==
    (reconcile_ran /\ availability_tasks = EmptyBag)
       => \A d \in DOMAIN remote : remote[d] = pms_available(d)

\* C19: a create_booking that has created its PaymentIntent and then fails
\* (the insert, a cell or the booking reference conflicts, or the commit
\* fails) ends with the intent cancelled at the processor and with no
\* booking row of that intent.
C19_FailedCreateCancelsIntent ==
    [][\A r \in Requests :
         (/\ res_req[r].pc = "release" /\ res_req'[r].pc = "done"
          /\ res_req[r].intent # 0 /\ res_req[r].resp # "reserved")
            => /\ intents'[res_req[r].intent] = "canceled"
               /\ \A b \in 1..Len(bookings') :
                     bookings'[b].stripe_payment_intent_id # res_req[r].intent]_vars

\* C20: once a booking is cancelled, no step of confirm_booking, of the
\* payment webhook, of the expiry task or of cancel_booking gives it another
\* status: a cancelled booking stays cancelled.
C20_CancelledIsFinal ==
    [][\A b \in 1..Len(bookings) :
         bookings[b].status = "cancelled" => bookings'[b].status = "cancelled"]_vars

\* C21: the payment webhook's payment_intent.succeeded branch, run on a
\* reserved booking, leaves what a successful confirm_booking leaves: the
\* booking confirmed and paid, the stay's cells booked, one more payment
\* transaction row of the booking and one more booking.confirmed event.
C21_WebhookMirrorsConfirm ==
    [][\A w \in Ops :
         (/\ res_op[w].pc = "write" /\ res_op[w].kind = "payment_intent.succeeded"
          /\ res_op'[w].pc = "done"
          /\ bookings[res_op[w].booking].status = "reserved")
            => LET b == res_op[w].booking
               IN /\ bookings'[b] = confirmed(bookings[b])
                  /\ calendar' = mark_calendar_booked(calendar, bookings[b].check_in,
                                                      bookings[b].check_out)
                  /\ published' = publish_booking_event(b, "booking.confirmed")
                  /\ payment_transactions' = payment_transactions (+) SetToBag({payment_row(b)})]_vars

\* C22: a create_booking whose lock acquisition times out answers 409,
\* creates no booking, no calendar cell and no payment intent, and leaves
\* the holder's lock as it is.
C22_LockTimeoutAnswers409 ==
    [][\A r \in Requests :
         /\ (res_req[r].pc = "lock" /\ res_req'[r].pc = "release")
               => UNCHANGED <<bookings, calendar, intents, res_lock>>
         /\ (res_req[r].pc = "release" /\ ~res_req[r].acquired /\ res_req'[r].pc = "done")
               => /\ UNCHANGED <<bookings, calendar, intents, res_lock>>
                  /\ res_req'[r].resp = "409"]_vars

\* C23: booking references are unique, and a create_booking whose stay is
\* free at its commit completes with a reference of its own even when a
\* concurrent request computed the same next reference: the collision is
\* retried, neither caller sees it.
C23_ReferenceCollisionIsRetried ==
    /\ [](\A a, b \in BookingIds :
            (/\ bookings[a].booking_reference # 0
             /\ bookings[a].booking_reference = bookings[b].booking_reference) => a = b)
    /\ [][\A r \in Requests :
            (/\ res_req[r].pc = "commit" /\ res_req'[r].pc # "commit"
             /\ check_availability_internal(res_req[r].check_in,
                                            res_req[r].check_out) = "available")
               => res_req'[r].resp = "reserved"]_vars

\* C24: after record_rate_limit(retry_after = r) at time t, no acquire that
\* starts after t and before t + r on that key is admitted.
C24_RetryAfterBlocksAcquire ==
    \A call \in rl_rate_limited : \A u \in 0..MaxClock :
        (call[1] < u /\ u < call[1] + call[2]) => rl_admitted[u] = 0

\* C25: refresh_expiring_tokens marks a connection expired at its third
\* consecutive token-refresh failure and not before: failures of the write
\* tasks do not count, a successful refresh restarts the count.
C25_ExpiredAtThirdRefreshFailure ==
    /\ [](refresh_failures >= 3 => connection.status = "expired")
    /\ [][(connection.status = "active" /\ connection'.status = "expired")
             => refresh_failures' >= 3]_vars

\* C26: an attempt of update_channel_availability or update_channel_pricing
\* in which the adapter raises a validation (400) or not-found (404) error
\* closes its SyncLog as failure and ends the task: no retry is scheduled.
C26_PermanentErrorIsNotRetried ==
    [][(/\ Len(sync_logs') = Len(sync_logs) + 1
        /\ sync_logs'[Len(sync_logs')].exception
              \in {"ValidationError", "ResourceNotFoundError"})
          => /\ sync_logs'[Len(sync_logs')].status = "failure"
             /\ write_task'.pc = "done"
             /\ write_task'.retries = write_task.retries]_vars

\* C27: whatever the interleaving of create_booking and import calls that
\* carry an email, the tenant has at most one guest row of that email.
C27_OneGuestPerEmail ==
    \A email \in Emails : Cardinality(guests_by_email(email)) <= 1

\* the failure timestamps that are live at the clock's value, the one of a
\* failure recorded now included
LiveFailures == { f \in cb_failures \cup {cb_now} : cb_now - f < window_size }

C29_OpenRejectsUntilTimeout ==
    [][\A w \in CbWorkers :
         /\ (/\ cb_worker[w].pc = "gs_opened" /\ cb_worker'[w].pc # "gs_opened"
             /\ cb_state = "open" /\ cb_opened_at # None)
               => IF cb_now - cb_opened_at < timeout
                  THEN cb_worker[w].op = "can_execute"
                          => (cb_worker'[w].pc = "idle" /\ cb_worker'[w].ret = "false")
                  ELSE cb_worker'[w].target = "half_open"
         /\ (/\ cb_worker[w].op = "can_execute" /\ cb_worker[w].target = "half_open"
             /\ cb_worker[w].pc # "idle" /\ cb_worker'[w].pc = "idle")
               => cb_worker'[w].ret = "true"]_vars

\* C30: while the breaker is HALF_OPEN no more than H calls have been
\* admitted since it entered the state: the admission counter, set to 0 on
\* entry and incremented by every admitted can_execute, stays at or below H.
C30_HalfOpenAdmitsAtMostH ==
    cb_state = "half_open" => OrZero(cb_half_open_calls) <= half_open_max_calls

\* C31: when a record_success that counted the S-th success completes its
\* transition on a breaker stored as HALF_OPEN, the breaker is CLOSED with
\* the failure set, the success counter, opened_at and the half-open call
\* counter all absent; when a record_failure completes its transition on a
\* breaker stored as HALF_OPEN, the breaker is OPEN with opened_at present
\* and not in the future and the success and half-open counters absent.
C31_HalfOpenExits ==
    [][\A w \in CbWorkers :
         (/\ cb_worker[w].pc = "set_state" /\ cb_worker'[w].pc = "idle"
          /\ cb_state = "half_open") =>
            /\ (cb_worker[w].op = "record_success" /\ cb_worker[w].target = "closed")
                 => /\ cb_state' = "closed"
                    /\ cb_failures' = {}
                    /\ cb_successes' = None
                    /\ cb_opened_at' = None
                    /\ cb_half_open_calls' = None
            /\ (cb_worker[w].op = "record_failure" /\ cb_worker[w].target = "open")
                 => /\ cb_state' = "open"
                    /\ cb_opened_at' # None /\ cb_opened_at' <= cb_now'
                    /\ cb_successes' = None
                    /\ cb_half_open_calls' = None]_vars

\* C32: a confirm_booking call that is not the repeat on a confirmed and
\* paid booking answers 400 when the booking's status is not reserved, when
\* the supplied payment-intent id differs from the recorded one, or when the
\* retrieved intent's status is not succeeded; and the step that answers 400
\* changes no booking, no calendar cell, no payment-transaction row and
\* publishes nothing.
C32_ConfirmRejectsWithoutChange ==
    [][\A w \in Ops :
         /\ (res_op[w].pc = "idle" /\ res_op'[w].kind = "confirm") =>
               LET b == res_op'[w].booking
               IN  /\ (/\ bookings[b].status # "reserved"
                       /\ ~(bookings[b].status = "confirmed"
                            /\ bookings[b].payment_status = "paid"))
                         => res_op'[w].resp = "400"
                   /\ (/\ bookings[b].status = "reserved"
                       /\ bookings[b].stripe_payment_intent_id # res_op'[w].intent)
                         => res_op'[w].resp = "400"
         /\ (/\ res_op[w].pc = "write" /\ res_op[w].kind = "confirm"
             /\ res_op'[w].pc = "done"
             /\ intents[res_op[w].intent] # "succeeded")
               => res_op'[w].resp = "400"
         /\ (/\ res_op'[w].kind = "confirm" /\ res_op[w].pc # "done"
             /\ res_op'[w].pc = "done" /\ res_op'[w].resp = "400")
               => /\ bookings' = bookings
                  /\ calendar' = calendar
                  /\ payment_transactions' = payment_transactions
                  /\ published' = published]_vars

\* a confirm_booking with the recorded intent id was answered 400 because
\* the intent has not succeeded, and the booking is still reserved, unpaid
\* and without a transaction row
C32_Witness ==
    \E w \in Ops :
       /\ res_op[w].kind = "confirm" /\ res_op[w].resp = "400"
       /\ res_op[w].booking \in BookingIds
       /\ bookings[res_op[w].booking].status = "reserved"
       /\ bookings[res_op[w].booking].stripe_payment_intent_id = res_op[w].intent
       /\ intents[res_op[w].intent] # "succeeded"
       /\ payment_transactions = EmptyBag

\* C33: every update_channel_availability and update_channel_pricing task
\* ends: it is executed at most max_retries + 1 times and reschedules itself
\* at most max_retries times, and the delay of the retry scheduled by the
\* attempt with retries = r is base_delays[min(r, 4)] plus a jitter between
\* 0 and half that base, the bases being 2, 4, 8, 16, 32, 32, ...
C33_WriteTaskTerminates ==
    /\ <>(write_task.pc = "done")
    /\ [](write_task.kind # "poll_single_channel"
            => /\ write_task.retries <= max_retries
               /\ write_task.attempts <= max_retries + 1)
    /\ [][(write_task.kind # "poll_single_channel"
           /\ write_task'.retries # write_task.retries)
             => /\ write_task'.retries = write_task.retries + 1
                /\ LET base == <<2, 4, 8, 16, 32>>[IF write_task.retries < 4
                                                   THEN write_task.retries + 1 ELSE 5]
                   IN  /\ write_task'.countdown >= base
                       /\ 2 * (write_task'.countdown - base) <= base]_vars
    /\ [](\A r \in 0..(2 * Len(base_delays)) :
             base_delay(r) = <<2, 4, 8, 16, 32>>[IF r < 4 THEN r + 1 ELSE 5])

\* a write task has failed for good after max_retries + 1 attempts, the last
\* retry having waited its base delay plus the largest jitter
C33_Witness ==
    /\ write_task.kind # "poll_single_channel"
    /\ write_task.pc = "done" /\ write_task.result = "failed"
    /\ write_task.attempts = max_retries + 1
    /\ write_task.retries = max_retries
    /\ write_task.countdown = base_delay(max_retries - 1)
                                 + base_delay(max_retries - 1) \div 2

\* C34: an attempt of an outbound write or poll task that the rate limiter
\* refuses only reschedules the task: it makes no record_failure call on the
\* channel's circuit breaker, leaves the connection's error_count as it was
\* and closes no SyncLog row as failure.
C34_RateLimitedOnlyReschedules ==
    [][(/\ write_task'.attempts = write_task.attempts + 1
        /\ write_task'.met = "rate_limited")
          => /\ write_task'.failures_recorded = write_task.failures_recorded
             /\ connection'.error_count = connection.error_count
             /\ \/ sync_logs' = sync_logs
                \/ sync_logs'[Len(sync_logs')].status # "failure"]_vars

\* C35: a breaker stored as HALF_OPEN always eventually leaves HALF_OPEN,
\* also when the H admitted probes end without a report or with an excluded
\* error: can_execute is not refused forever.
C35_HalfOpenIsLeft ==
    (cb_state = "half_open") ~> (cb_state # "half_open")

\* C36: whenever the stored circuit state is OPEN the opened_at key is
\* present, whatever the interleaving of the commands of concurrent
\* record_failure, record_success and get_state calls, so that get_state can
\* move an OPEN breaker to HALF_OPEN once the timeout has elapsed.
C36_OpenHasOpenedAt ==
    cb_state = "open" => cb_opened_at # None

\* C37: while only confirm_booking, the payment_intent.succeeded webhook
\* and the expiry task have acted on a booking, a confirmed booking is paid
\* and every cell of its stay is unavailable and references it, and a
\* cancelled booking is expired, holds no cell and has no payment recorded.
C37_ConfirmExpireRace ==
    (\A w \in Ops : res_op[w].kind \notin {"cancel", "payment_intent.payment_failed"})
       => \A b \in BookingIds :
             /\ bookings[b].status = "confirmed"
                  => /\ bookings[b].payment_status = "paid"
                     /\ \A d \in date_range(bookings[b].check_in, bookings[b].check_out) :
                           ~calendar[d].available /\ calendar[d].booking_id = b
             /\ bookings[b].status = "cancelled"
                  => /\ bookings[b].payment_status = "expired"
                     /\ \A d \in Dates : calendar[d].booking_id # b
                     /\ ~BagIn(payment_row(b), payment_transactions)

\* C38: a cancel_booking sets the booking's payment status to refunded only
\* when stripe.Refund.create returned, and a cancel_booking whose refund
\* call failed leaves the payment status other than refunded and adds no
\* refund transaction row.
C38_RefundedOnlyWhenRefundCreated ==
    [][\A w \in Ops :
         (/\ res_op[w].kind = "cancel" /\ res_op[w].pc = "write"
          /\ res_op'[w].pc = "done") =>
            LET b == res_op[w].booking
            IN  /\ (/\ bookings'[b].payment_status = "refunded"
                    /\ bookings[b].payment_status # "refunded")
                      => res_op'[w].refund_status = "completed"
                /\ res_op'[w].refund_status = "failed"
                      => /\ bookings'[b].payment_status # "refunded"
                         /\ payment_transactions' = payment_transactions]_vars

\* C39: every booking that import_channel_booking inserted eventually has
\* sync_to_other_channels enqueued for it, also when the task is delivered
\* again after its insert committed and before the fan-out was enqueued.
C39_ImportedIsFannedOut ==
    \A b \in 1..NumImports :
       [](b \in BookingIds => <>(b \in fanout))

\* C40: at any time at most one create_booking request per lock key is
\* between its acquisition of the booking lock and its release, also when a
\* holder's critical section outlasts the lease; and the release of a
\* request that no longer owns the key leaves the key as it is.
C40_OneHolderPerStay ==
    /\ [](\A r1, r2 \in Requests :
            (/\ r1 # r2
             /\ res_req[r1].acquired /\ res_req[r1].pc \notin {"idle", "done"}
             /\ res_req[r2].acquired /\ res_req[r2].pc \notin {"idle", "done"})
               => lock_key(res_req[r1]) # lock_key(res_req[r2]))
    /\ [][\A r \in Requests :
            (/\ res_req[r].pc = "release" /\ res_req'[r].pc = "done"
             /\ res_lock[lock_key(res_req[r])] # r)
               => res_lock' = res_lock]_vars

====
